---- MODULE Spec2Model ----
(***************************************************************************)
(* Options Wheel Strategy trading bot (nagaforcloud/options).              *)
(*                                                                         *)
(* The specifications of this module share its variables:                  *)
(*   SpecRetry   - utils/setup_utils.py  with_retry                        *)
(*   SpecBreaker - utils/setup_utils.py  circuit_breaker                   *)
(*   Spec        - core/strategy.py      calls of place_order, with the    *)
(*                 risk manager and the trades table it writes to          *)
(*   SpecCycle   - core/strategy.py      calls of execute_strategy_cycle,  *)
(*                 which reach place_order when a position is closed       *)
(*   SpecMain    - main.py               main() from argv to exit          *)
(*   SpecRun     - core/strategy.py      run() and its shutdown            *)
(*   SpecDao     - database/generic_dao.py  inserts and reads by key       *)
(*   SpecNotify  - notifications/notification_interface.py                 *)
(*   SpecLlm     - ai/base.py            call_llm from several threads     *)
(*   SpecJudge   - ai/kill/semantic_kill.py  judge_message                 *)
(*   SpecConfig  - config/config.py      construction of the settings      *)
(*   SpecShouldPlace, SpecMaxSize - risk_management/risk_manager.py        *)
(*                 should_place_order and calculate_max_position_size      *)
(*   SpecChain   - core/strategy.py      get_options_chain and its cache   *)
(*   SpecRolls   - auto_roll_functions.py  execute_rolls_for_positions     *)
(*   SpecMock    - backtesting/mock_kite.py  MockKiteConnect.place_order   *)
(* Each specification leaves the variables of the others untouched.        *)
(***************************************************************************)
EXTENDS Integers, Sequences, FiniteSets, TLC

VARIABLES
    \* ---- with_retry (setup_utils.py 24-44) ----
    max_retries,        \* decorator argument
    backoff_factor,     \* decorator argument
    retry_pc,           \* "idle" | "running" | "returned" | "raised"
    attempt,            \* loop variable of `for attempt in range(max_retries + 1)`
    func_outcomes,      \* outcome of every invocation of the wrapped call, in order
    retry_result,       \* value returned / exception raised to the caller
    slept,              \* the waits handed to time.sleep, in order
    \* ---- circuit_breaker (setup_utils.py 47-93) ----
    breaker_state,      \* closure variable `state`
    failures,           \* closure variable `failures` (timestamps)
    calls,              \* closure variable `calls` (timestamps)
    last_failure_time,  \* closure variable `last_failure_time` (NoTime = None)
    clock,              \* time.time()
    invocations,        \* number of times the wrapped function was entered
    last_call,          \* what the most recent wrapper call did
    failure_streak,     \* times of the wrapped function's consecutive failures
    \* ---- OptionWheelStrategy and what it writes to ----
    kill_switch_file,   \* os.path.exists(config.kill_switch_file)
    market_open,        \* what is_market_open() answers now
    dry_run,            \* config.dry_run
    wall_clock,         \* datetime.now(), in ticks of 1/TicksPerSecond second
    kill_switch_active, \* self.kill_switch_active
    trading_enabled,    \* self.trading_enabled
    trades,             \* rows of the trades table
    risk_manager,       \* fields of the global RiskManager
    broker_orders,      \* every kite.place_order call made, in order
    active_orders,      \* self.state.active_orders
    order_calls,        \* the place_order calls of the most recent handler
    breach_reported,    \* enforce_risk_limits() has returned False in a cycle
    cycle_steps,        \* the calls the most recent execute_strategy_cycle made, in order
    \* ---- main() (main.py 46-148) ----
    main_pc,            \* "not_started" | "in_mode" | "after_try" | "exited"
    argv,               \* the command line handed to argparse
    exit_code,          \* status the process exited with (NoExit while it runs)
    main_events,        \* notifications sent and flows entered by main(), in order
    kill_file_at_start, \* os.path.exists(config.kill_switch_file) when main() began
    \* ---- OptionWheelStrategy.run() (strategy.py 849-893) ----
    run_pc,             \* "not_started" | "looping" | "returned" | "exited"
    strategy_running,   \* self.state.strategy_running
    run_events,         \* what shutdown() has done, in order
    \* ---- TradeDAO / PositionDAO (generic_dao.py) ----
    positions_table,    \* rows of the positions table
    dao_call,           \* the most recent DAO call: its arguments and its outcome
    last_written,       \* per table and key, the record of the last insert that succeeded
    \* ---- NotificationManager (notification_interface.py 117-238) ----
    notifier,           \* enabled, notification_type and which channels have credentials
    notify_call,        \* the most recent call: the sends it invoked and what it returned
    \* ---- AIBase (ai/base.py 20-159) ----
    llm_client,         \* self.llm_client (NoClient = None)
    llm_lock,           \* thread holding self._llm_client_lock (0 = free)
    llm_pc,             \* per thread: where it is inside call_llm
    llm_got,            \* per thread: what get_llm_client returned to it
    llm_result,         \* per thread: how call_llm ended
    initializations,    \* runs of _initialize_llm_client so far
    \* ---- semantic kill switch (ai/kill/semantic_kill.py 18-110) ----
    judge_call,         \* the most recent call of judge_message: its inputs and what it returned
    \* ---- OptionWheelConfig (config/config.py 15-261) ----
    config_call,        \* one construction: the field values given and how it ended
    \* ---- RiskManager called on its own (risk_manager.py 88-158, 339-374) ----
    risk_call,          \* one call: the manager's figures, the arguments and the result
    \* ---- options-chain cache (core/strategy.py 75-77, 181-299) ----
    options_chain_cache,       \* self.options_chain_cache, per cache key
    options_chain_last_fetch,  \* age of self.options_chain_last_fetch[key] against the TTL
    instruments,        \* self.instruments: per underlying, the option symbols listed
    chain_call,         \* the most recent get_options_chain call
    \* ---- execute_rolls_for_positions (auto_roll_functions.py 220-282) ----
    roll_call,          \* one call: the batch, the tracking before and after, the records
    \* ---- MockKiteConnect (backtesting/mock_kite.py 11-286) ----
    mock_kite           \* the mock broker: balances, orders, positions, trades

retryVars   == <<max_retries, backoff_factor, retry_pc, attempt, func_outcomes,
                 retry_result, slept>>
breakerVars == <<breaker_state, failures, calls, last_failure_time, clock,
                 invocations, last_call, failure_streak>>
envVars     == <<kill_switch_file, market_open, dry_run, wall_clock>>
engineVars  == <<kill_switch_active, trading_enabled, trades, risk_manager,
                 broker_orders, active_orders, order_calls, breach_reported, cycle_steps>>
strategyVars == <<envVars, engineVars>>
mainVars    == <<main_pc, argv, exit_code, main_events, kill_file_at_start>>
runVars     == <<run_pc, strategy_running, run_events>>
daoVars     == <<positions_table, dao_call, last_written>>
notifyVars  == <<notifier, notify_call>>
llmVars     == <<llm_client, llm_lock, llm_pc, llm_got, llm_result, initializations>>
judgeVars   == <<judge_call>>
configVars  == <<config_call>>
riskVars    == <<risk_call>>
cacheVars   == <<options_chain_cache, options_chain_last_fetch, instruments, chain_call>>
rollVars    == <<roll_call>>
mockVars    == <<mock_kite>>
extraVars   == <<configVars, riskVars, cacheVars, rollVars, mockVars>>
sideVars    == <<mainVars, runVars, daoVars, notifyVars, llmVars, judgeVars, extraVars>>
coreVars    == <<retryVars, breakerVars, strategyVars, mainVars, runVars, daoVars, notifyVars,
                 llmVars, judgeVars>>
vars        == <<retryVars, breakerVars, strategyVars, sideVars>>

None == "None"

(***************************************************************************)
(* with_retry                                                              *)
(***************************************************************************)
MaxRetriesBound == 3
MaxBackoff      == 2

\* what one invocation of the wrapped call can do: return a value or raise
FuncOutcomes ==
    { [ok |-> TRUE,  v |-> "r1"], [ok |-> TRUE,  v |-> "r2"],
      [ok |-> FALSE, v |-> "e1"], [ok |-> FALSE, v |-> "e2"] }

RECURSIVE Pow2(_)
Pow2(n) == IF n = 0 THEN 1 ELSE 2 * Pow2(n - 1)

\* `range(max_retries + 1)`: the attempts the loop runs
AttemptRange(mr) == 0 .. mr

IsFinalAttempt_OffByOne(a, mr) == a = mr + 1

\* `if attempt == max_retries: raise e`
IsFinalAttempt(a, mr) == a = mr

\* `wait_time = backoff_factor * (2 ** attempt)`
WaitTime(bf, a) == bf * Pow2(a)

RetryIdle ==
    /\ retry_pc = "idle"
    /\ attempt = 0
    /\ func_outcomes = <<>>
    /\ retry_result = None
    /\ slept = <<>>

RetryInit ==
    /\ max_retries \in 0 .. MaxRetriesBound
    /\ backoff_factor \in 1 .. MaxBackoff
    /\ RetryIdle

\* the caller enters wrapper(): the loop starts at attempt 0
RetryCall ==
    /\ retry_pc = "idle"
    /\ retry_pc' = "running"
    /\ attempt' = 0
    /\ func_outcomes' = <<>>
    /\ retry_result' = None
    /\ slept' = <<>>
    /\ UNCHANGED <<max_retries, backoff_factor>>
    /\ UNCHANGED <<breakerVars, strategyVars, sideVars>>

\* one iteration of the loop body; when the range is exhausted the wrapper
\* falls out of the loop and returns None
RetryAttempt ==
    /\ retry_pc = "running"
    /\ IF attempt \notin AttemptRange(max_retries)
       THEN /\ retry_pc' = "returned"
            /\ retry_result' = None
            /\ UNCHANGED <<attempt, func_outcomes, slept>>
       ELSE \E out \in FuncOutcomes :
            /\ func_outcomes' = Append(func_outcomes, out)
            /\ IF out.ok
               THEN /\ retry_pc' = "returned"
                    /\ retry_result' = out.v
                    /\ UNCHANGED <<attempt, slept>>
               ELSE IF IsFinalAttempt(attempt, max_retries)
                    THEN /\ retry_pc' = "raised"
                         /\ retry_result' = out.v
                         /\ UNCHANGED <<attempt, slept>>
                    ELSE /\ slept' = Append(slept, WaitTime(backoff_factor, attempt))
                         /\ attempt' = attempt + 1
                         /\ UNCHANGED <<retry_pc, retry_result>>
    /\ UNCHANGED <<max_retries, backoff_factor>>
    /\ UNCHANGED <<breakerVars, strategyVars, sideVars>>

\* the wrapper has returned or raised; the decorated function can be called again
RetryDone ==
    /\ retry_pc \in {"returned", "raised"}
    /\ retry_pc' = "idle"
    /\ attempt' = 0
    /\ func_outcomes' = <<>>
    /\ retry_result' = None
    /\ slept' = <<>>
    /\ UNCHANGED <<max_retries, backoff_factor>>
    /\ UNCHANGED <<breakerVars, strategyVars, sideVars>>

(***************************************************************************)
(* circuit_breaker                                                         *)
(***************************************************************************)
failure_threshold == 3
timeout           == 120
WindowSeconds     == 300
TickSeconds       == 60
MaxClock          == 360
MaxInvocations    == 4
NoTime            == -1

\* `nonlocal state, last_failure_time`: the closure variables wrapper() may
\* rebind.  Any other name wrapper() assigns is a local of wrapper().
WrapperNonlocals == {"state", "last_failure_time"}

\* names wrapper() assigns somewhere in its body (lines 65, 73, 82, 83, 86, 87)
WrapperAssigned == {"state", "last_failure_time", "failures", "calls"}

\* a name that is assigned in wrapper() and not declared nonlocal is an
\* unbound local when line 77 reads it
UnboundAtFirstUse(name) == name \in WrapperAssigned \ WrapperNonlocals

\* `[t for t in xs if t > cutoff]`
RECURSIVE After(_, _)
After(xs, cutoff) ==
    IF xs = <<>> THEN <<>>
    ELSE IF Head(xs) > cutoff THEN <<Head(xs)>> \o After(Tail(xs), cutoff)
         ELSE After(Tail(xs), cutoff)

\* `if last_failure_time and (time.time() - last_failure_time) > timeout`
TimeoutElapsed == last_failure_time # NoTime /\ last_failure_time # 0
                  /\ (clock - last_failure_time) > timeout

\* `state` as the try block finds it: line 65 has moved OPEN to HALF_OPEN
Entered == IF breaker_state = "OPEN" THEN "HALF_OPEN" ELSE breaker_state

NoCall == [invoked |-> FALSE, outcome |-> "none", at |-> 0]

BreakerIdle ==
    /\ breaker_state = "CLOSED"
    /\ failures = <<>>
    /\ calls = <<>>
    /\ last_failure_time = NoTime
    /\ clock = 0
    /\ invocations = 0
    /\ last_call = NoCall
    /\ failure_streak = <<>>

\* time passes
Tick ==
    /\ clock + TickSeconds <= MaxClock
    /\ clock' = clock + TickSeconds
    /\ UNCHANGED <<breaker_state, failures, calls, last_failure_time,
                   invocations, last_call, failure_streak>>
    /\ UNCHANGED <<retryVars, strategyVars, sideVars>>

\* one call of the decorated function; func_ok is what the wrapped function
\* does if it is entered
BreakerCall ==
    /\ invocations < MaxInvocations
    /\ \E func_ok \in BOOLEAN :
       IF breaker_state = "OPEN" /\ ~TimeoutElapsed
       THEN \* raise Exception("Circuit breaker is OPEN")
            /\ last_call' = [invoked |-> FALSE, outcome |-> "rejected", at |-> clock]
            /\ UNCHANGED <<breaker_state, failures, calls, last_failure_time,
                           invocations, failure_streak>>
       ELSE /\ invocations' = invocations + 1
            /\ IF func_ok
               THEN /\ breaker_state' = IF Entered = "HALF_OPEN" THEN "CLOSED" ELSE Entered
                    /\ last_call' = [invoked |-> TRUE, outcome |-> "returned", at |-> clock]
                    /\ failure_streak' = <<>>
                    /\ UNCHANGED <<failures, calls, last_failure_time>>
               ELSE /\ failure_streak' = Append(failure_streak, clock)
                    /\ IF UnboundAtFirstUse("failures")
                       THEN \* line 77 raises UnboundLocalError inside the handler
                            /\ breaker_state' = Entered
                            /\ last_call' = [invoked |-> TRUE,
                                             outcome |-> "UnboundLocalError", at |-> clock]
                            /\ UNCHANGED <<failures, calls, last_failure_time>>
                       ELSE LET cutoff == clock - WindowSeconds
                                fs == After(Append(failures, clock), cutoff)
                                cs == After(Append(calls, clock), cutoff)
                            IN /\ failures' = fs
                               /\ calls' = cs
                               /\ IF Len(fs) >= failure_threshold
                                  THEN /\ breaker_state' = "OPEN"
                                       /\ last_failure_time' = clock
                                  ELSE /\ breaker_state' = Entered
                                       /\ UNCHANGED last_failure_time
                               /\ last_call' = [invoked |-> TRUE,
                                                outcome |-> "raised", at |-> clock]
    /\ UNCHANGED clock
    /\ UNCHANGED <<retryVars, strategyVars, sideVars>>

(***************************************************************************)
(* OptionWheelStrategy.place_order                                         *)
(***************************************************************************)
MaxOrders      == 2
MaxTicks       == 2
TicksPerSecond == 2

NoOrder == [kind |-> "None", n |-> 0]

\* f"DRY_RUN_{int(datetime.now().timestamp())}": whole seconds, fraction dropped
DryRunOrderId(t) == [kind |-> "DRY_RUN", n |-> t \div TicksPerSecond]

\* the id kite.place_order answers with: the broker numbers its orders
BrokerOrderId(log) == [kind |-> "KITE", n |-> Len(log) + 1]

\* the engine state a handler works on, with what the handler has done so far
Cur ==
    [ kill_switch_active |-> kill_switch_active,
      trading_enabled    |-> trading_enabled,
      trades             |-> trades,
      risk_manager       |-> risk_manager,
      broker_orders      |-> broker_orders,
      active_orders      |-> active_orders,
      breach_reported    |-> breach_reported,
      order_calls        |-> <<>>,
      prompts            |-> 0,      \* input() calls
      insert_calls       |-> 0,      \* db_manager.insert_trade calls
      inserts            |-> 0,      \* rows written to the trades table
      notifications      |-> 0,      \* send_notification / send_order_notification
      alerts             |-> 0,      \* send_critical_alert
      risk_checks        |-> 0,      \* risk_manager.should_place_order calls
      steps              |-> <<>> ]  \* the calls execute_strategy_cycle made, in order

Commit(S) ==
    /\ kill_switch_active' = S.kill_switch_active
    /\ trading_enabled' = S.trading_enabled
    /\ trades' = S.trades
    /\ risk_manager' = S.risk_manager
    /\ broker_orders' = S.broker_orders
    /\ active_orders' = S.active_orders
    /\ breach_reported' = S.breach_reported
    /\ order_calls' = S.order_calls
    /\ cycle_steps' = S.steps

\* _check_kill_switch: looks for the file; finding it latches both flags
check_kill_switch == kill_switch_file

KillSwitchEffect(S) ==
    IF check_kill_switch
    THEN [S EXCEPT !.kill_switch_active = TRUE, !.trading_enabled = FALSE]
    ELSE S

is_market_open == market_open

InvalidOrderParams_QuantityOnly(quantity, price, order_type) == quantity <= 0

\* `if quantity <= 0` / `if price <= 0 and order_type == "LIMIT"`
InvalidOrderParams(quantity, price, order_type) ==
    quantity <= 0 \/ (price <= 0 /\ order_type = "LIMIT")

DryRunBranch_Never == FALSE

\* `if config.dry_run:` in place_order
DryRunBranch == dry_run

\* _confirm_live_trading: asks on every call, remembers nothing
confirm_live_trading(typed) == IF dry_run THEN TRUE ELSE typed = "CONFIRM"

\* GenericDAO.insert: INSERT OR REPLACE on the UNIQUE order_id
InsertOrReplace(rows, row) ==
    { r \in rows : r.order_id # row.order_id } \cup {row}

\* TradeDAO.insert_trade through DatabaseManager.insert_trade: True and the
\* row written, or False and nothing written when sqlite raises
insert_trade(S, row, db_ok) ==
    IF db_ok
    THEN [S EXCEPT !.trades = InsertOrReplace(@, row), !.inserts = @ + 1,
                   !.insert_calls = @ + 1]
    ELSE [S EXCEPT !.insert_calls = @ + 1]

get_trade_by_id(rows, order_id) == { r \in rows : r.order_id = order_id }

\* RiskManager.add_trade
add_trade(S, order_id) ==
    [S EXCEPT !.risk_manager.trades_today = Append(@, order_id)]

\* the Trade place_order builds in dry-run
MockTrade(order_id, o) ==
    [ order_id |-> order_id, symbol |-> o.symbol,
      transaction_type |-> o.transaction_type, order_type |-> o.order_type,
      quantity |-> o.quantity, price |-> o.price,
      filled_quantity |-> o.quantity, average_price |-> o.price,
      status |-> "COMPLETE" ]

\* place_order is left: the call is recorded with what it did between S0 and S1
Return(S0, S1, o, ret) ==
    [S1 EXCEPT !.order_calls = Append(@,
        [ order    |-> o,
          kill     |-> kill_switch_file,
          market   |-> market_open,
          dry      |-> dry_run,
          ret      |-> ret,
          placed_before |-> Cardinality(S0.active_orders),
          sent     |-> Len(S1.broker_orders) - Len(S0.broker_orders),
          insert_calls |-> S1.insert_calls - S0.insert_calls,
          inserted |-> S1.inserts - S0.inserts,
          in_table |-> get_trade_by_id(S1.trades, ret) # {},
          prompted |-> S1.prompts - S0.prompts,
          notified |-> S1.notifications - S0.notifications,
          alerted  |-> S1.alerts - S0.alerts,
          tracked  |-> Len(S1.risk_manager.trades_today)
                         - Len(S0.risk_manager.trades_today),
          risk_checked |-> S1.risk_checks - S0.risk_checks ])]

\* place_order(symbol, transaction_type, quantity, price, order_type);
\* in: what the operator types if asked, whether the broker and sqlite work
place_order(S, o, in) ==
    IF check_kill_switch THEN Return(S, KillSwitchEffect(S), o, NoOrder)
    ELSE IF ~is_market_open THEN Return(S, S, o, NoOrder)
    ELSE IF InvalidOrderParams(o.quantity, o.price, o.order_type)
         THEN Return(S, S, o, NoOrder)
    ELSE IF DryRunBranch
         THEN LET order_id == DryRunOrderId(wall_clock)
                  S1 == [S EXCEPT !.notifications = @ + 1]
                  S2 == insert_trade(S1, MockTrade(order_id, o), in.db_ok)
                  S3 == add_trade(S2, order_id)
              IN Return(S, S3, o, order_id)
    ELSE LET S1 == IF dry_run THEN S ELSE [S EXCEPT !.prompts = @ + 1]
         IN IF ~confirm_live_trading(in.typed) THEN Return(S, S1, o, NoOrder)
            ELSE LET order_id == BrokerOrderId(S1.broker_orders)
                     S2 == [S1 EXCEPT !.broker_orders =
                                 Append(@, [order |-> o, accepted |-> in.broker_ok])]
                 IN IF ~in.broker_ok
                    THEN \* kite.place_order raised: critical alert, no id
                         Return(S, [S2 EXCEPT !.alerts = @ + 1], o, NoOrder)
                    ELSE Return(S,
                             [S2 EXCEPT !.notifications = @ + 1,
                                        !.active_orders = @ \cup
                                            {[order_id |-> order_id, order |-> o]}],
                             o, order_id)

(***************************************************************************)
(* RiskManager                                                             *)
(***************************************************************************)
daily_loss_limit            == 5000
max_concurrent_positions    == 5
MarginUtilizationLimitPct   == 95
RiskPerTradePct             == 1
StrikePct                   == 95
quantity_per_lot            == 150

\* RiskManager.__init__
RiskManagerInit ==
    [ daily_losses      |-> 0,
      current_positions |-> {},
      trades_today      |-> <<>>,
      portfolio_value   |-> 0,
      cash_available    |-> 0,
      margin_available  |-> 0,
      margin_used       |-> 0 ]

\* check_risk_limits()["margin_exceeded"]: used / (available + used) > 0.95
margin_exceeded(rm) ==
    IF rm.margin_available + rm.margin_used > 0
    THEN 100 * rm.margin_used
            > MarginUtilizationLimitPct * (rm.margin_available + rm.margin_used)
    ELSE FALSE

\* enforce_risk_limits(): False when a critical limit is exceeded
enforce_risk_limits(rm) ==
    ~ ( \/ rm.daily_losses >= daily_loss_limit
        \/ Cardinality(rm.current_positions) >= max_concurrent_positions
        \/ margin_exceeded(rm) )

\* calculate_max_position_size(underlying_price, strategy_type): the strike
\* of a cash-secured put is taken as 95% of the underlying, a covered call
\* uses the underlying itself; dividing by (strike) price * quantity_per_lot
\* raises ZeroDivisionError when the price is 0
calculate_max_position_size(rm, underlying_price, strategy_type) ==
    IF rm.portfolio_value <= 0 THEN [raised |-> FALSE, size |-> 0]
    ELSE IF underlying_price = 0 THEN [raised |-> TRUE, size |-> 0]
    ELSE LET lots == IF strategy_type = "CASH_SECURED_PUT"
                     THEN (rm.portfolio_value * RiskPerTradePct)
                            \div (StrikePct * underlying_price * quantity_per_lot)
                     ELSE (rm.portfolio_value * RiskPerTradePct)
                            \div (100 * underlying_price * quantity_per_lot)
             size == lots * quantity_per_lot
         IN IF size < quantity_per_lot
            THEN [raised |-> FALSE,
                  size |-> IF rm.portfolio_value * RiskPerTradePct
                                  >= 100 * underlying_price * quantity_per_lot
                           THEN quantity_per_lot ELSE 0]
            ELSE [raised |-> FALSE, size |-> size]

(***************************************************************************)
(* OptionWheelStrategy.execute_strategy_cycle                              *)
(***************************************************************************)
ProfitTargetPct == 50
LossLimitPct    == 100

Abs(x) == IF x < 0 THEN 0 - x ELSE x
Min(a, b) == IF a <= b THEN a ELSE b

\* _update_portfolio_info: kite.margins() feeds the risk manager; an error is
\* logged and nothing is updated
update_portfolio_info(S, margins) ==
    IF ~margins.ok THEN S
    ELSE [S EXCEPT !.risk_manager.cash_available   = margins.cash,
                   !.risk_manager.portfolio_value  = margins.cash + margins.debits,
                   !.risk_manager.margin_available = margins.cash,
                   !.risk_manager.margin_used      = margins.debits]

\* get_current_positions: kite.positions(), or the engine's own (empty)
\* active_positions when the broker call fails
get_current_positions(reply) == IF reply.ok THEN reply.list ELSE <<>>

\* _close_position: offsetting LIMIT order at the quoted price, or a MARKET
\* order at price 0 when the quote cannot be had
close_position(S, position, in) ==
    LET closing  == IF position.quantity < 0 THEN "BUY" ELSE "SELL"
        quantity == Abs(position.quantity)
    IN IF in.close_quote_ok
       THEN LET S1 == place_order(S,
                        [symbol |-> position.symbol, transaction_type |-> closing,
                         quantity |-> quantity, price |-> in.quote.last_price,
                         order_type |-> "LIMIT"], in)
            IN IF S1.order_calls[Len(S1.order_calls)].ret # NoOrder
               THEN [S1 EXCEPT !.notifications = @ + 1]
               ELSE S1
       ELSE place_order(S,
                [symbol |-> position.symbol, transaction_type |-> closing,
                 quantity |-> quantity, price |-> 0, order_type |-> "MARKET"], in)

\* current_pnl >= profit_target * abs(quantity)
ProfitTargetReached(premium, current_price, quantity) ==
    100 * (premium - current_price) * quantity >= ProfitTargetPct * premium * quantity

\* current_pnl <= -loss_limit * abs(quantity)
StopLossTriggered(premium, current_price, quantity) ==
    100 * (premium - current_price) * quantity <= 0 - LossLimitPct * premium * quantity

\* _manage_existing_positions: every short option position is quoted and
\* closed at its profit target or its stop loss
RECURSIVE manage_existing_positions(_, _, _)
manage_existing_positions(S, positions, in) ==
    IF positions = <<>> THEN S
    ELSE LET position == Head(positions)
             is_short_position == position.average_price > 0 /\ position.quantity < 0
             original_premium  == Abs(position.average_price)
             q  == Abs(position.quantity)
             S1 == IF ~is_short_position \/ ~in.quote.ok THEN S
                   ELSE IF ProfitTargetReached(original_premium, in.quote.last_price, q)
                        THEN close_position(S, position, in)
                   ELSE IF StopLossTriggered(original_premium, in.quote.last_price, q)
                        THEN close_position(S, position, in)
                   ELSE S
         IN manage_existing_positions(S1, Tail(positions), in)

\* self.state.active_positions: empty from __init__ on (no state file), and no
\* handler ever adds to it
active_positions == {}

\* a call made during execute_strategy_cycle, noted in the order it is made
Did(S, call, ok) == [S EXCEPT !.steps = Append(@, [call |-> call, ok |-> ok])]

\* _look_for_new_positions: sizes the position with underlying_price = 0; the
\* best option is one lot at the price last quoted
look_for_new_positions(S, in) ==
    IF Cardinality(active_positions) >= max_concurrent_positions THEN S
    ELSE LET S0 == Did(S, "find_best_otm_strikes", in.option_found)
         IN IF ~in.option_found THEN S0
    ELSE LET m == calculate_max_position_size(S0.risk_manager, 0, "CASH_SECURED_PUT")
         IN IF m.raised THEN S0
            ELSE IF m.size <= 0 THEN S0
            ELSE LET lots == Min(m.size \div quantity_per_lot, 1)
                     quantity == lots * quantity_per_lot
                 IN IF quantity <= 0 THEN S0
                    ELSE LET S1 == place_order(S0,
                                 [symbol |-> "NIFTY24500PE", transaction_type |-> "SELL",
                                  quantity |-> quantity, price |-> in.quote.last_price,
                                  order_type |-> "LIMIT"], in)
                         IN IF S1.order_calls[Len(S1.order_calls)].ret # NoOrder
                            THEN [S1 EXCEPT !.notifications = @ + 1]
                            ELSE S1

\* `if not risk_manager.enforce_risk_limits():` (strategy.py 551-554)
RiskLimitsBreached_Never(rm) == FALSE
RiskLimitsBreached(rm) == ~enforce_risk_limits(rm)

\* execute_strategy_cycle
execute_strategy_cycle(S, in) ==
    IF check_kill_switch THEN KillSwitchEffect(S)
    ELSE IF ~is_market_open THEN S
    ELSE LET S1 == Did(update_portfolio_info(S, in.margins),
                       "update_portfolio_info", in.margins.ok)
             S2 == Did(S1, "enforce_risk_limits", enforce_risk_limits(S1.risk_manager))
         IN IF RiskLimitsBreached(S2.risk_manager)
            THEN [S2 EXCEPT !.trading_enabled = FALSE, !.breach_reported = TRUE]
            ELSE LET positions == get_current_positions(in.positions)
                 IN IF positions # <<>>
                    THEN manage_existing_positions(
                            Did(S2, "manage_existing_positions", TRUE), positions, in)
                    ELSE look_for_new_positions(
                            Did(S2, "look_for_new_positions", TRUE), in)

(***************************************************************************)
(* The strategy's environment and its operations                           *)
(***************************************************************************)
Symbols      == {"NIFTY24500PE"}
Quantities   == {0, 1}
Prices       == {0, 2}
OrderTypes   == {"LIMIT", "MARKET"}
Typed        == {"CONFIRM", "no"}

\* the orders a caller can hand to place_order
Orders ==
    [ symbol : Symbols, transaction_type : {"SELL"}, quantity : Quantities,
      price : Prices, order_type : OrderTypes ]

ShortPut1 == [symbol |-> "NIFTY24000PE", quantity |-> -1, average_price |-> 2]
ShortPut2 == [symbol |-> "NIFTY23900PE", quantity |-> -1, average_price |-> 2]
LongPut   == [symbol |-> "NIFTY24000PE", quantity |-> 1,  average_price |-> 2]

\* what kite.positions() can answer
PositionReplies ==
    { [ok |-> FALSE, list |-> <<>>], [ok |-> TRUE, list |-> <<>>],
      [ok |-> TRUE, list |-> <<ShortPut1>>],
      [ok |-> TRUE, list |-> <<ShortPut1, ShortPut2>>],
      [ok |-> TRUE, list |-> <<LongPut>>] }

\* what kite.quote() can answer
NoQuote == [ok |-> FALSE, last_price |-> 0]
QuoteReplies == {NoQuote} \cup { [ok |-> TRUE, last_price |-> p] : p \in {0, 1, 2, 4} }

\* what kite.margins() can answer
MarginReplies ==
    { [ok |-> FALSE, cash |-> 0, debits |-> 0],
      [ok |-> TRUE, cash |-> 100000, debits |-> 0],
      [ok |-> TRUE, cash |-> 5, debits |-> 100] }

NoMargins   == [ok |-> FALSE, cash |-> 0, debits |-> 0]
NoPositions == [ok |-> TRUE, list |-> <<>>]

\* what the operator types if asked and whether the broker and sqlite work.
\* Answers nobody asks for are fixed: dry-run neither prompts nor reaches the
\* broker, live mode writes no trade row, a refused prompt reaches no broker.
IoAnswers ==
    IF dry_run
    THEN { [typed |-> "CONFIRM", broker_ok |-> TRUE, db_ok |-> d] : d \in BOOLEAN }
    ELSE { [typed |-> "CONFIRM", broker_ok |-> b, db_ok |-> TRUE] : b \in BOOLEAN }
         \cup { [typed |-> "no", broker_ok |-> TRUE, db_ok |-> TRUE] }

\* what the broker shows during one cycle: its positions, the quote of the
\* cycle (one price per cycle), whether the second quote of _close_position
\* can be had, and whether the option chain holds a suitable strike
MarketAnswers ==
    { [positions |-> p, quote |-> NoQuote, close_quote_ok |-> TRUE, option_found |-> f] :
          p \in { r \in PositionReplies : r.list = <<>> }, f \in BOOLEAN }
    \cup
    { [positions |-> p, quote |-> q, close_quote_ok |-> c, option_found |-> FALSE] :
          p \in { r \in PositionReplies : r.list # <<>> },
          q \in QuoteReplies \ {NoQuote}, c \in BOOLEAN }
    \cup
    { [positions |-> p, quote |-> NoQuote, close_quote_ok |-> TRUE, option_found |-> FALSE] :
          p \in { r \in PositionReplies : r.list # <<>> } }

Answer(io, margins, m) ==
    [ typed |-> io.typed, broker_ok |-> io.broker_ok, db_ok |-> io.db_ok,
      margins |-> margins, positions |-> m.positions, quote |-> m.quote,
      close_quote_ok |-> m.close_quote_ok, option_found |-> m.option_found ]

QuietMarket ==
    [positions |-> NoPositions, quote |-> NoQuote, close_quote_ok |-> TRUE,
     option_found |-> FALSE]

\* the answers a direct place_order call can meet
OrderAnswers == { Answer(io, NoMargins, QuietMarket) : io \in IoAnswers }

\* the answers a cycle can meet; a cycle that stops at the kill switch or the
\* closed market asks nothing
CycleAnswers ==
    IF check_kill_switch \/ ~is_market_open
    THEN { Answer(CHOOSE io \in IoAnswers : io.typed = "CONFIRM" /\ io.broker_ok /\ io.db_ok,
                  NoMargins, QuietMarket) }
    ELSE { Answer(io, g, m) : io \in IoAnswers, g \in MarginReplies, m \in MarketAnswers }

OrdersSoFar == Len(broker_orders) + Len(risk_manager.trades_today)

StrategyIdle ==
    /\ kill_switch_file = FALSE
    /\ market_open = FALSE
    /\ dry_run = TRUE
    /\ wall_clock = 0
    /\ kill_switch_active = FALSE
    /\ trading_enabled = TRUE
    /\ trades = {}
    /\ risk_manager = RiskManagerInit
    /\ broker_orders = <<>>
    /\ active_orders = {}
    /\ order_calls = <<>>
    /\ breach_reported = FALSE
    /\ cycle_steps = <<>>

EngineIdle ==
    /\ kill_switch_active = FALSE
    /\ trading_enabled = TRUE
    /\ trades = {}
    /\ risk_manager = RiskManagerInit
    /\ broker_orders = <<>>
    /\ active_orders = {}
    /\ order_calls = <<>>
    /\ breach_reported = FALSE
    /\ cycle_steps = <<>>

\* OptionWheelStrategy.__init__ in a process main() let start: no kill-switch
\* file, an empty trades table, a fresh risk manager
StrategyInit ==
    /\ kill_switch_file = FALSE
    /\ market_open \in BOOLEAN
    /\ dry_run \in BOOLEAN
    /\ wall_clock = 0
    /\ kill_switch_active = FALSE
    /\ trading_enabled = TRUE
    /\ trades = {}
    /\ risk_manager = RiskManagerInit
    /\ broker_orders = <<>>
    /\ active_orders = {}
    /\ order_calls = <<>>
    /\ breach_reported = FALSE
    /\ cycle_steps = <<>>

\* a call of place_order
PlaceOrder ==
    /\ OrdersSoFar < MaxOrders
    /\ \E o \in Orders, in \in OrderAnswers : Commit(place_order(Cur, o, in))
    /\ UNCHANGED <<envVars, retryVars, breakerVars, sideVars>>

\* a call of execute_strategy_cycle
ExecuteStrategyCycle ==
    /\ \E in \in CycleAnswers :
          /\ OrdersSoFar + Len(in.positions.list) <= MaxOrders
          /\ Commit(execute_strategy_cycle(Cur, in))
    /\ UNCHANGED <<envVars, retryVars, breakerVars, sideVars>>

\* the operator creates or removes the kill-switch file
TouchKillSwitchFile ==
    /\ kill_switch_file' = ~kill_switch_file
    /\ UNCHANGED <<market_open, dry_run, wall_clock>>
    /\ UNCHANGED <<engineVars, retryVars, breakerVars, sideVars>>

\* the exchange opens or closes
MarketBell ==
    /\ market_open' = ~market_open
    /\ UNCHANGED <<kill_switch_file, dry_run, wall_clock>>
    /\ UNCHANGED <<engineVars, retryVars, breakerVars, sideVars>>

\* the wall clock advances by one tick
ClockTick ==
    /\ wall_clock < MaxTicks
    /\ wall_clock' = wall_clock + 1
    /\ UNCHANGED <<kill_switch_file, market_open, dry_run>>
    /\ UNCHANGED <<engineVars, retryVars, breakerVars, sideVars>>

(***************************************************************************)
(* main.py: main()                                                         *)
(***************************************************************************)
NoExit == -1

\* --mode choices of the argument parser (main.py 50-55)
Modes == {"live", "backtest", "dashboard", "prepare-data"}

\* what parser.parse_args() (main.py 65) does with the command line: it
\* returns the namespace, or prints usage and exits with 2, or prints the help
\* and exits with 0
CommandLines ==
    { [parse |-> "ok", mode |-> m] : m \in Modes }
        \cup { [parse |-> "error", mode |-> "none"], [parse |-> "help", mode |-> "none"] }

\* how the flow of a mode ends (main.py 95-123): it returns, or raises
\* KeyboardInterrupt or an Exception; run() of the live flow also ends the
\* process with sys.exit(0) from its signal handler (strategy.py 860-863)
ModeOutcomes(mode) ==
    {"returns", "KeyboardInterrupt", "Exception"}
        \cup (IF mode = "live" THEN {"SystemExit0"} ELSE {})

MainIdle ==
    /\ main_pc = "not_started"
    /\ argv = [parse |-> "ok", mode |-> "live"]
    /\ exit_code = NoExit
    /\ main_events = <<>>
    /\ kill_file_at_start = FALSE

MainInit ==
    /\ main_pc = "not_started"
    /\ argv \in CommandLines
    /\ exit_code = NoExit
    /\ main_events = <<>>
    /\ kill_file_at_start = FALSE

Exit(code, events) ==
    /\ main_pc' = "exited"
    /\ exit_code' = code
    /\ main_events' = events

\* check_kill_switch() of main.py 39-43: does it call sys.exit(1)?
StartupKillSwitch_Ignored == FALSE

StartupKillSwitch == kill_switch_file

\* main.py 46-83: parse the arguments, create the directories, check the
\* kill switch, send the start notification
MainStart ==
    /\ main_pc = "not_started"
    /\ kill_file_at_start' = kill_switch_file
    /\ \E dirs_ok \in BOOLEAN :
          IF argv.parse = "error" THEN Exit(2, main_events)
          ELSE IF argv.parse = "help" THEN Exit(0, main_events)
          ELSE IF ~dirs_ok THEN Exit(1, main_events)   \* os.makedirs raises, uncaught
          ELSE IF StartupKillSwitch THEN Exit(1, Append(main_events, "initialize_directories"))
          ELSE /\ main_pc' = "in_mode"
               /\ exit_code' = exit_code
               /\ main_events' = main_events \o <<"initialize_directories", "notify:Bot Started">>
    /\ UNCHANGED argv
    /\ UNCHANGED <<retryVars, breakerVars, strategyVars, runVars, daoVars, notifyVars, llmVars, judgeVars,
                 extraVars>>

\* main.py 85-137: the try block and its handlers
MainMode ==
    /\ main_pc = "in_mode"
    /\ \E typed \in Typed, outcome \in ModeOutcomes(argv.mode) :
          IF argv.mode = "live" /\ ~dry_run /\ typed # "CONFIRM"
          THEN Exit(1, Append(main_events, "input"))     \* sys.exit(1), line 93
          ELSE LET asked   == IF argv.mode = "live" /\ ~dry_run
                              THEN Append(main_events, "input") ELSE main_events
                   entered == Append(asked, argv.mode)
               IN  IF outcome = "Exception"
                   THEN Exit(1, Append(entered, "notify:Bot Error"))   \* lines 131-137
                   ELSE IF outcome = "SystemExit0"
                   THEN Exit(0, entered)
                   ELSE /\ main_pc' = "after_try"     \* returned, or lines 129-130
                        /\ exit_code' = exit_code
                        /\ main_events' = entered
    /\ UNCHANGED <<argv, kill_file_at_start>>
    /\ UNCHANGED <<retryVars, breakerVars, strategyVars, runVars, daoVars, notifyVars, llmVars, judgeVars,
                 extraVars>>

\* main.py 139-148: log the shutdown, send the stop notification, return
MainFinish ==
    /\ main_pc = "after_try"
    /\ Exit(0, Append(main_events, "notify:Bot Stopped"))
    /\ UNCHANGED <<argv, kill_file_at_start>>
    /\ UNCHANGED <<retryVars, breakerVars, strategyVars, runVars, daoVars, notifyVars, llmVars, judgeVars,
                 extraVars>>

(***************************************************************************)
(* core/strategy.py: OptionWheelStrategy.run() and shutdown()              *)
(***************************************************************************)
RunIdle ==
    /\ run_pc = "not_started"
    /\ strategy_running = FALSE
    /\ run_events = <<>>

\* shutdown() (strategy.py 996-1013): clear the running flag, save the state,
\* send the shutdown notification
Shutdown ==
    /\ strategy_running' = FALSE
    /\ run_events' = run_events \o <<"save_state", "notify:Strategy Shutdown">>

\* the kill-switch test at the top of the loop body (strategy.py 875-878)
LoopKillSwitch_Skipped == FALSE

LoopKillSwitch == check_kill_switch

\* the loop condition (strategy.py 873)
LoopCondition == strategy_running /\ trading_enabled /\ ~kill_switch_active

\* run() up to the loop (strategy.py 849-871)
RunStart ==
    /\ run_pc = "not_started"
    /\ \E typed \in Typed :
          IF ~dry_run /\ ~confirm_live_trading(typed)
          THEN /\ run_pc' = "returned"                 \* line 857: plain return
               /\ UNCHANGED <<strategy_running, run_events>>
          ELSE /\ run_pc' = "looping"
               /\ strategy_running' = TRUE
               /\ UNCHANGED run_events
    /\ UNCHANGED <<retryVars, breakerVars, strategyVars, mainVars, daoVars, notifyVars, llmVars, judgeVars,
                 extraVars>>

\* one pass of the while loop (strategy.py 873-891); leaving the loop runs
\* shutdown() (line 893)
RunIteration ==
    /\ run_pc = "looping"
    /\ IF ~LoopCondition
       THEN /\ run_pc' = "returned"
            /\ Shutdown
            /\ UNCHANGED engineVars
       ELSE IF LoopKillSwitch
       THEN /\ run_pc' = "returned"
            /\ Shutdown
            /\ Commit(KillSwitchEffect(Cur))
       ELSE /\ \E in \in CycleAnswers :
                  /\ OrdersSoFar + Len(in.positions.list) <= MaxOrders
                  /\ Commit(execute_strategy_cycle(Cur, in))
            /\ UNCHANGED runVars
    /\ UNCHANGED <<retryVars, breakerVars, envVars, mainVars, daoVars, notifyVars, llmVars, judgeVars,
                 extraVars>>

\* SIGINT or SIGTERM while looping (strategy.py 860-867): shutdown(), sys.exit(0)
RunSignal ==
    /\ run_pc = "looping"
    /\ run_pc' = "exited"
    /\ Shutdown
    /\ UNCHANGED <<retryVars, breakerVars, strategyVars, mainVars, daoVars, notifyVars, llmVars, judgeVars,
                 extraVars>>

(***************************************************************************)
(* database/generic_dao.py: TradeDAO and PositionDAO over sqlite           *)
(* Numbers and plain strings are written and read back by value; optional  *)
(* values and timestamps are converted as the code converts them.          *)
(***************************************************************************)
\* Python values
PyNone == [py |-> "NoneType"]
Str(s) == [py |-> "str", v |-> s]
Datetime(day, second, microsecond, tzinfo) ==
    [py |-> "datetime", day |-> day, second |-> second,
     microsecond |-> microsecond, tzinfo |-> tzinfo]

\* what the class attribute position_type is after the class body of Position:
\* the method of lines 85-92 replaces the None of line 83 and becomes the
\* dataclass default of the field
PositionTypeDefault == [py |-> "function"]

\* SQL values
Null == [sql |-> "NULL"]
Text(s) == [sql |-> "TEXT", v |-> s]

\* datetime.isoformat(): date, "T", time, the fraction only when there are
\* microseconds, the offset only when the datetime is aware
isoformat_WholeSeconds(dt) ==
    <<"date", dt.day, "T", dt.second>>
        \o (IF dt.tzinfo # "naive" THEN <<dt.tzinfo>> ELSE <<>>)

isoformat(dt) ==
    <<"date", dt.day, "T", dt.second>>
        \o (IF dt.microsecond # 0 THEN <<".", dt.microsecond>> ELSE <<>>)
        \o (IF dt.tzinfo # "naive" THEN <<dt.tzinfo>> ELSE <<>>)

\* datetime.fromisoformat()
fromisoformat(text) ==
    LET fraction == Len(text) >= 6
        offset   == Len(text) = 5 \/ Len(text) = 7
    IN  Datetime(text[2], text[4],
                 IF fraction THEN text[6] ELSE 0,
                 IF offset THEN text[Len(text)] ELSE "naive")

\* `x.isoformat() if x else None` (generic_dao.py 153-155, 271-272)
HasIsoformat(value) == value.py \in {"NoneType", "datetime"}

timestamp_str(value) == IF value # PyNone THEN Str(isoformat(value)) ELSE PyNone

\* `datetime.fromisoformat(row[c]) if row[c] else None` (215-217, 318-319)
row_timestamp(column) == IF column # Null THEN fromisoformat(column.v) ELSE PyNone

\* sqlite3 parameter binding: None, int, float, str and bytes are supported
Bindable(value) == value.py \in {"NoneType", "str"}

Bind(value) == IF value = PyNone THEN Null ELSE Text(value.v)

\* sqlite3.Row to Python
Fetched(column) == IF column = Null THEN PyNone ELSE Str(column.v)

\* lines 157-186: the dictionary insert_trade hands to insert
trade_dict(trade) ==
    [ order_id           |-> trade.order_id,
      symbol             |-> trade.symbol,
      quantity           |-> trade.quantity,
      price              |-> trade.price,
      order_timestamp    |-> timestamp_str(trade.order_timestamp),
      exchange_timestamp |-> timestamp_str(trade.exchange_timestamp),
      parent_order_id    |-> trade.parent_order_id,
      date               |-> timestamp_str(trade.date) ]

\* lines 274-302: the dictionary insert_position hands to insert
position_dict(position) ==
    [ symbol          |-> position.symbol,
      quantity        |-> position.quantity,
      average_price   |-> position.average_price,
      pnl             |-> position.pnl,
      entry_timestamp |-> timestamp_str(position.entry_timestamp),
      exit_timestamp  |-> timestamp_str(position.exit_timestamp),
      position_type   |-> position.position_type ]

TradeOptionals    == {"order_timestamp", "exchange_timestamp", "parent_order_id", "date"}
PositionOptionals == {"entry_timestamp", "exit_timestamp", "position_type"}

\* the row sqlite stores for a dictionary
BoundRow(data, optionals) ==
    [ c \in DOMAIN data |-> IF c \in optionals THEN Bind(data[c]) ELSE data[c] ]

\* INSERT OR REPLACE on the table's UNIQUE column
Upsert_Append(rows, row, key) == rows \cup {row}

Upsert(rows, row, key) == { r \in rows : r[key] # row[key] } \cup {row}

\* GenericDAO.insert (52-72): does its try block catch what sqlite raises?
InsertCatches_Nothing == FALSE

InsertCatches == TRUE

\* GenericDAO.insert: the statement fails when sqlite is unavailable or when a
\* value cannot be bound; the failure is logged and reported as False
insert(rows, data, optionals, key, db_ok) ==
    LET executes == db_ok /\ \A c \in optionals : Bindable(data[c])
    IN  IF executes
        THEN [raised |-> FALSE, returned |-> TRUE, logged |-> FALSE,
              rows |-> Upsert(rows, BoundRow(data, optionals), key)]
        ELSE [raised |-> ~InsertCatches, returned |-> FALSE, logged |-> TRUE,
              rows |-> rows]

\* GenericDAO.get_by_id (74-85): the row, or None when there is none or sqlite
\* raises
get_by_id(rows, key, item_id, db_ok) ==
    IF db_ok /\ \E r \in rows : r[key] = item_id
    THEN {CHOOSE r \in rows : r[key] = item_id}
    ELSE {}

\* _row_to_trade (211-248)
row_to_trade(row) ==
    [ order_id           |-> row.order_id,
      symbol             |-> row.symbol,
      quantity           |-> row.quantity,
      price              |-> row.price,
      order_timestamp    |-> row_timestamp(row.order_timestamp),
      exchange_timestamp |-> row_timestamp(row.exchange_timestamp),
      parent_order_id    |-> Fetched(row.parent_order_id),
      date               |-> row_timestamp(row.date) ]

\* _row_to_position (314-349)
row_to_position(row) ==
    [ symbol          |-> row.symbol,
      quantity        |-> row.quantity,
      average_price   |-> row.average_price,
      pnl             |-> row.pnl,
      entry_timestamp |-> row_timestamp(row.entry_timestamp),
      exit_timestamp  |-> row_timestamp(row.exit_timestamp),
      position_type   |-> Fetched(row.position_type) ]

\* ---- the DAO calls and their inputs ----
OrderIds        == {"TEST_ORDER_001", "TEST_ORDER_002"}
PositionSymbols == {"NIFTY23JUN18000CE", "NIFTY23JUN18000PE"}

\* Trade records (models.py 10-42): timestamps are datetimes or None, the
\* parent order id a string or None
TradeShapes ==
    { [ quantity |-> 50, price |-> 150,
        order_timestamp |-> Datetime(1, 33300, 123456, "naive"),
        exchange_timestamp |-> Datetime(1, 33300, 0, "naive"),
        parent_order_id |-> PyNone, date |-> PyNone ],
      [ quantity |-> 50, price |-> 155,
        order_timestamp |-> Datetime(2, 33300, 0, "+05:30"),
        exchange_timestamp |-> Datetime(2, 33301, 500, "+05:30"),
        parent_order_id |-> Str("TEST_ORDER_001"), date |-> Datetime(2, 0, 0, "naive") ],
      [ quantity |-> 100, price |-> 150,
        order_timestamp |-> PyNone,
        exchange_timestamp |-> PyNone,
        parent_order_id |-> PyNone, date |-> Datetime(1, 0, 0, "naive") ] }

Trade(order_id, shape) ==
    [ order_id |-> order_id, symbol |-> "NIFTY23JUN18000CE",
      quantity |-> shape.quantity, price |-> shape.price,
      order_timestamp |-> shape.order_timestamp,
      exchange_timestamp |-> shape.exchange_timestamp,
      parent_order_id |-> shape.parent_order_id, date |-> shape.date ]

TradeInputs == { Trade(id, shape) : id \in OrderIds, shape \in TradeShapes }

\* Position(...) (models.py 52-92): the three trailing fields take their
\* defaults when they are not given
RequiredOnly ==
    [ entry_timestamp |-> PyNone, exit_timestamp |-> PyNone,
      position_type |-> PositionTypeDefault ]

PositionTrailing ==
    { RequiredOnly,
      [ entry_timestamp |-> Datetime(1, 33300, 0, "naive"), exit_timestamp |-> PyNone,
        position_type |-> Str("LONG") ],
      [ entry_timestamp |-> Datetime(1, 33300, 250, "+05:30"),
        exit_timestamp |-> Datetime(2, 33300, 0, "+05:30"), position_type |-> PyNone ] }

Position(symbol, quantity, trailing) ==
    [ symbol |-> symbol, quantity |-> quantity, average_price |-> 150, pnl |-> 2500,
      entry_timestamp |-> trailing.entry_timestamp,
      exit_timestamp |-> trailing.exit_timestamp,
      position_type |-> trailing.position_type ]

PositionInputs ==
    { Position(sym, 50, t) : sym \in PositionSymbols, t \in PositionTrailing }

NoDaoCall == [op |-> "none"]

NothingWritten ==
    [ trades    |-> [id \in OrderIds |-> PyNone],
      positions |-> [sym \in PositionSymbols |-> PyNone] ]

DaoIdle ==
    /\ positions_table = {}
    /\ dao_call = NoDaoCall
    /\ last_written = NothingWritten

DaoRest == <<retryVars, breakerVars, envVars, mainVars, runVars, notifyVars, llmVars, judgeVars,
             extraVars,
             kill_switch_active, trading_enabled, risk_manager, broker_orders,
             active_orders, order_calls, breach_reported, cycle_steps>>

\* TradeDAO.insert_trade (150-188)
InsertTrade ==
    /\ \E trade \in TradeInputs, db_ok \in BOOLEAN :
          LET converts == \A c \in {"order_timestamp", "exchange_timestamp", "date"} :
                              HasIsoformat(trade[c])
              done == insert(trades, trade_dict(trade), TradeOptionals, "order_id", db_ok)
          IN  /\ trades' = IF converts THEN done.rows ELSE trades
              /\ dao_call' = [ op |-> "insert_trade", arg |-> trade, db_ok |-> db_ok,
                               raised   |-> ~converts \/ done.raised,
                               returned |-> converts /\ done.returned,
                               logged   |-> converts /\ done.logged,
                               written  |-> converts /\ done.returned,
                               replaced |-> converts /\ trades \ done.rows # {} ]
              /\ last_written' = IF converts /\ done.returned
                                 THEN [last_written EXCEPT !.trades[trade.order_id] = trade]
                                 ELSE last_written
    /\ UNCHANGED positions_table
    /\ UNCHANGED DaoRest

\* PositionDAO.insert_position (267-304)
InsertPosition ==
    /\ \E position \in PositionInputs, db_ok \in BOOLEAN :
          LET converts == \A c \in {"entry_timestamp", "exit_timestamp"} :
                              HasIsoformat(position[c])
              done == insert(positions_table, position_dict(position), PositionOptionals,
                             "symbol", db_ok)
          IN  /\ positions_table' = IF converts THEN done.rows ELSE positions_table
              /\ dao_call' = [ op |-> "insert_position", arg |-> position, db_ok |-> db_ok,
                               raised   |-> ~converts \/ done.raised,
                               returned |-> converts /\ done.returned,
                               logged   |-> converts /\ done.logged,
                               written  |-> converts /\ done.returned,
                               replaced |-> converts /\ positions_table \ done.rows # {} ]
              /\ last_written' = IF converts /\ done.returned
                                 THEN [last_written EXCEPT !.positions[position.symbol] = position]
                                 ELSE last_written
    /\ UNCHANGED trades
    /\ UNCHANGED DaoRest

\* TradeDAO.get_trade_by_id (190-196)
GetTradeById ==
    /\ \E order_id \in OrderIds, db_ok \in BOOLEAN :
          LET row == get_by_id(trades, "order_id", order_id, db_ok)
          IN  dao_call' = [ op |-> "get_trade_by_id", arg |-> order_id, db_ok |-> db_ok,
                            found |-> row # {},
                            returned |-> { row_to_trade(r) : r \in row } ]
    /\ UNCHANGED <<trades, positions_table, last_written>>
    /\ UNCHANGED DaoRest

\* PositionDAO.get_position_by_symbol (306-312)
GetPositionBySymbol ==
    /\ \E symbol \in PositionSymbols, db_ok \in BOOLEAN :
          LET row == get_by_id(positions_table, "symbol", symbol, db_ok)
          IN  dao_call' = [ op |-> "get_position_by_symbol", arg |-> symbol, db_ok |-> db_ok,
                            found |-> row # {},
                            returned |-> { row_to_position(r) : r \in row } ]
    /\ UNCHANGED <<trades, positions_table, last_written>>
    /\ UNCHANGED DaoRest

(***************************************************************************)
(* notifications/notification_interface.py: NotificationManager            *)
(***************************************************************************)
\* self.notification_systems, in the order the dictionary is iterated
\* (lines 126-129)
notification_systems == <<"webhook", "telegram">>

Channels == { notification_systems[i] : i \in DOMAIN notification_systems }

\* config.notification_type may name a channel the manager does not have
NotificationTypes == Channels \cup {"email"}

NoNotifyCall == [op |-> "none"]

NotifierInit ==
    /\ notifier \in [ enabled : BOOLEAN, notification_type : NotificationTypes,
                      has_credentials : SUBSET Channels ]
    /\ notify_call = NoNotifyCall

NotifyIdle ==
    /\ notifier = [ enabled |-> FALSE, notification_type |-> "webhook",
                    has_credentials |-> {} ]
    /\ notify_call = NoNotifyCall

\* WebhookNotification.send / TelegramNotification.send (32-63, 73-114): False
\* without credentials, otherwise what the HTTP request gives
send(channel, http_ok) == channel \in notifier.has_credentials /\ http_ok[channel]

\* NotificationManager.send_notification (134-177): the sends invoked and the
\* value returned
send_notification(notification_type, http_ok) ==
    IF ~notifier.enabled THEN [invoked |-> <<>>, returned |-> TRUE]
    ELSE IF notification_type \notin Channels THEN [invoked |-> <<>>, returned |-> FALSE]
    ELSE [invoked |-> <<notification_type>>, returned |-> send(notification_type, http_ok)]

\* one pass of the loop of send_critical_alert (231-236):
\* `success = success and self.send_notification(...)`
AlertStep(so_far, channel, http_ok) ==
    IF so_far.returned
    THEN LET r == send_notification(channel, http_ok)
         IN  [invoked |-> so_far.invoked \o r.invoked, returned |-> r.returned]
    ELSE so_far

RECURSIVE AlertLoop(_, _, _)
AlertLoop(so_far, i, http_ok) ==
    IF i > Len(notification_systems) THEN so_far
    ELSE AlertLoop(AlertStep(so_far, notification_systems[i], http_ok), i + 1, http_ok)

\* NotificationManager.send_critical_alert (225-238)
send_critical_alert(http_ok) == AlertLoop([invoked |-> <<>>, returned |-> TRUE], 1, http_ok)

NotifyRest == <<retryVars, breakerVars, strategyVars, mainVars, runVars, daoVars, llmVars,
                judgeVars, extraVars>>

\* a call of send_notification on the default channel
SendNotification ==
    /\ \E http_ok \in [Channels -> BOOLEAN] :
          LET r == send_notification(notifier.notification_type, http_ok)
          IN  notify_call' = [ op |-> "send_notification", http_ok |-> http_ok,
                               invoked |-> r.invoked, returned |-> r.returned ]
    /\ UNCHANGED notifier
    /\ UNCHANGED NotifyRest

\* a call of send_critical_alert
SendCriticalAlert ==
    /\ \E http_ok \in [Channels -> BOOLEAN] :
          LET r == send_critical_alert(http_ok)
          IN  notify_call' = [ op |-> "send_critical_alert", http_ok |-> http_ok,
                               invoked |-> r.invoked, returned |-> r.returned ]
    /\ UNCHANGED notifier
    /\ UNCHANGED NotifyRest

(***************************************************************************)
(* ai/base.py: AIBase.get_llm_client and AIBase.call_llm, called from      *)
(* several threads                                                         *)
(***************************************************************************)
NumThreads == 2

Threads == 1 .. NumThreads

NoClient == [kind |-> "None", id |-> 0]

NoResult == [raised |-> FALSE, text |-> "none", failed |-> FALSE]

LlmIdle ==
    /\ llm_client = NoClient
    /\ llm_lock = 0
    /\ llm_pc = [t \in Threads |-> "idle"]
    /\ llm_got = [t \in Threads |-> [client |-> NoClient, locked |-> FALSE]]
    /\ llm_result = [t \in Threads |-> NoResult]
    /\ initializations = 0

LlmRest == <<retryVars, breakerVars, strategyVars, mainVars, runVars, daoVars, notifyVars,
             judgeVars, extraVars>>

Goto(t, pc) == llm_pc' = [llm_pc EXCEPT ![t] = pc]

\* the client _initialize_llm_client (63-87) assigns: the openai module with an
\* API key, the ollama module without, a new MockLLMClient when the import fails
ClientFor(has_key, import_ok, n) ==
    IF ~import_ok THEN [kind |-> "mock", id |-> n]
    ELSE IF has_key THEN [kind |-> "openai", id |-> n]
    ELSE [kind |-> "ollama", id |-> n]

\* `if not self.llm_client:` under the lock (line 58)
NeedsInitialization_Unchecked == TRUE

NeedsInitialization == llm_client = NoClient

\* a thread enters call_llm, which calls get_llm_client (line 111)
CallLlm(t) ==
    /\ llm_pc[t] = "idle"
    /\ Goto(t, "first_check")
    /\ UNCHANGED <<llm_client, llm_lock, llm_got, llm_result, initializations>>
    /\ UNCHANGED LlmRest

\* line 56: `if not self.llm_client:` without the lock
FirstCheck(t) ==
    /\ llm_pc[t] = "first_check"
    /\ IF llm_client = NoClient THEN Goto(t, "acquire") ELSE Goto(t, "return")
    /\ UNCHANGED <<llm_client, llm_lock, llm_got, llm_result, initializations>>
    /\ UNCHANGED LlmRest

\* line 57: `with self._llm_client_lock:` blocks while another thread holds it
Acquire(t) ==
    /\ llm_pc[t] = "acquire"
    /\ llm_lock = 0
    /\ llm_lock' = t
    /\ llm_got' = [llm_got EXCEPT ![t].locked = TRUE]
    /\ Goto(t, "second_check")
    /\ UNCHANGED <<llm_client, llm_result, initializations>>
    /\ UNCHANGED LlmRest

\* lines 58-59 with _initialize_llm_client (63-87), then the lock is released
InitializeUnderLock(t) ==
    /\ llm_pc[t] = "second_check"
    /\ IF NeedsInitialization
       THEN /\ \E has_key \in BOOLEAN, import_ok \in BOOLEAN :
                  llm_client' = ClientFor(has_key, import_ok, initializations + 1)
            /\ initializations' = initializations + 1
       ELSE UNCHANGED <<llm_client, initializations>>
    /\ llm_lock' = 0
    /\ Goto(t, "return")
    /\ UNCHANGED <<llm_got, llm_result>>
    /\ UNCHANGED LlmRest

\* line 61: `return self.llm_client`
ReturnClient(t) ==
    /\ llm_pc[t] = "return"
    /\ llm_got' = [llm_got EXCEPT ![t].client = llm_client]
    /\ Goto(t, "dispatch")
    /\ UNCHANGED <<llm_client, llm_lock, llm_result, initializations>>
    /\ UNCHANGED LlmRest

\* call_llm's `except Exception` (144-146): does it catch what the call raises?
CallCatches_Nothing == FALSE

CallCatches == TRUE

\* lines 113-146: the call is dispatched on the shape of the client; the
\* MockLLMClient has generate() and answers with a marked text; a call that
\* raises is answered with mock_llm_response
Dispatch(t) ==
    /\ llm_pc[t] = "dispatch"
    /\ \E call_ok \in BOOLEAN :
          LET client == llm_got[t].client
              fails  == client.kind \in {"openai", "ollama"} /\ ~call_ok
          IN  llm_result' = [llm_result EXCEPT ![t] =
                  [ raised |-> fails /\ ~CallCatches,
                    failed |-> fails,
                    text   |-> IF fails \/ client.kind = "mock" THEN "[MOCK]" ELSE "model" ]]
    /\ Goto(t, "done")
    /\ UNCHANGED <<llm_client, llm_lock, llm_got, initializations>>
    /\ UNCHANGED LlmRest

(***************************************************************************)
(* Semantic kill switch (ai/kill/semantic_kill.py 18-202).                 *)
(* A message is the set of vocabulary words it contains; confidences are   *)
(* in thousandths (0.95 is 950).                                           *)
(***************************************************************************)
Vocabulary == {"stop", "crisis", "urgent", "pause", "freeze", "loss", "hello"}
Messages   == SUBSET Vocabulary

\* the words of the vocabulary that each pattern or keyword list matches
high_confidence_patterns   == {"stop"}
medium_confidence_patterns == {"pause", "loss"}
crisis_keywords            == {"crisis", "urgent"}
stop_keywords              == {"stop", "pause", "freeze"}
concern_keywords           == {"loss"}

_check_obvious_kill_intent(message) ==
    IF message \cap high_confidence_patterns # {}
      THEN [has_kill_intent |-> TRUE, confidence |-> 950]
    ELSE IF message \cap medium_confidence_patterns # {}
      THEN [has_kill_intent |-> TRUE, confidence |-> 750]
    ELSE [has_kill_intent |-> FALSE, confidence |-> 100]

_heuristic_judgment(message) ==
    LET crisis_score  == Cardinality(message \cap crisis_keywords)
        stop_score    == Cardinality(message \cap stop_keywords)
        concern_score == Cardinality(message \cap concern_keywords)
        total_score   == (crisis_score * 3) + (stop_score * 2) + concern_score
    IN  IF total_score >= 5 THEN [decision |-> "KILL", confidence |-> 900]
        ELSE IF total_score >= 3 THEN [decision |-> "PAUSE", confidence |-> 700]
        ELSE IF total_score >= 1 THEN [decision |-> "INQUIRE", confidence |-> 400]
        ELSE [decision |-> "OK", confidence |-> 200]

\* what call_llm hands back: a text json.loads rejects (the mock client's
\* answer is one), or the JSON object the prompt asks for
Decisions   == {"KILL", "PAUSE", "INQUIRE", "OK"}
Unparsable  == [json |-> FALSE]
LlmResponses ==
    {Unparsable} \cup
    [json : {TRUE}, decision : Decisions, confidence : {500, 890, 900, 950}]

\* lines 85-93: the decision of the model, or of the heuristic when the
\* response does not parse
Decided(message, response) ==
    IF response.json
      THEN [decision |-> response.decision, confidence |-> response.confidence]
      ELSE _heuristic_judgment(message)

\* SEMANTIC_KILL_CONFIDENCE_THRESHOLD as the environment gives it, and the
\* attribute the config object ends up with: the last definition of the
\* field (config.py 238) keeps the text of the variable
ThresholdTexts == {"0.9", "0.5"}
float(text) == CASE text = "0.9" -> 900 [] text = "0.5" -> 500 [] text = "1.5" -> 1500
semantic_kill_confidence_threshold(text) == Str(text)

\* `confidence < threshold` between a float and a str raises TypeError
Comparable(threshold) == threshold.py = "float"

NoJudgeCall == [op |-> "none"]
JudgeIdle   == judge_call = NoJudgeCall

Judgement(should_activate, confidence, explanation) ==
    [should_activate |-> should_activate, confidence |-> confidence,
     explanation |-> explanation]

judge_message(enabled, message, response, threshold) ==
    LET regex == _check_obvious_kill_intent(message)
        d     == Decided(message, response)
        should_activate == d.decision \in {"KILL", "PAUSE"}
    IN  IF ~enabled THEN Judgement(FALSE, 0, "Feature disabled")
        ELSE IF regex.has_kill_intent /\ regex.confidence >= 950
          THEN Judgement(TRUE, regex.confidence, "Obvious kill command detected")
        ELSE IF ~Comparable(threshold)
          THEN Judgement(FALSE, 100, "Error in judgment")
        ELSE IF d.confidence < threshold.v
          THEN Judgement(FALSE, d.confidence \div 2, "Confidence below threshold")
        ELSE Judgement(should_activate, d.confidence, "decision")

JudgeRest == <<retryVars, breakerVars, strategyVars, mainVars, runVars, daoVars,
               notifyVars, llmVars, extraVars>>

\* the arguments and the configuration of one call, before it runs
JudgeInit ==
    judge_call \in [ op : {"called"}, enabled : BOOLEAN, message : Messages,
                     response : LlmResponses, threshold_text : ThresholdTexts ]

JudgeMessage ==
    /\ judge_call.op = "called"
    /\ judge_call' =
          [ op |-> "returned", enabled |-> judge_call.enabled,
            message |-> judge_call.message, response |-> judge_call.response,
            threshold_text |-> judge_call.threshold_text,
            returned |-> judge_message(judge_call.enabled, judge_call.message,
                            judge_call.response,
                            semantic_kill_confidence_threshold(judge_call.threshold_text)) ]
    /\ UNCHANGED JudgeRest

NextJudge == JudgeMessage

(***************************************************************************)
(* OptionWheelConfig (config/config.py 15-261).                            *)
(* Delta bands are in hundredths, risk_per_trade_percent and the AI        *)
(* thresholds in thousandths.  The class body defines __post_init__ twice  *)
(* (177 and 241); the class keeps the second, which is the one modelled.   *)
(***************************************************************************)
CoreIdle ==
    /\ RetryIdle /\ max_retries = 0 /\ backoff_factor = 1 /\ BreakerIdle
    /\ StrategyIdle /\ MainIdle /\ RunIdle /\ DaoIdle /\ NotifyIdle /\ LlmIdle
    /\ JudgeIdle

StrategyModes == {"conservative", "balanced", "aggressive"}
Credentials   == {"api_key", "api_secret", "access_token"}

\* otm_delta_range_<mode>_low / _high
ModeBand(mode) ==
    CASE mode = "conservative" -> [low |-> 10, high |-> 15]
      [] mode = "balanced"     -> [low |-> 15, high |-> 25]
      [] mode = "aggressive"   -> [low |-> 25, high |-> 35]

\* the field values a construction starts from (keyword arguments, or the
\* environment read by the defaults)
ConfigFields ==
    [ strategy_mode : StrategyModes \cup {"turbo"},
      otm_delta_range_low  : {5, 15, 25},
      otm_delta_range_high : {15, 25, 50},
      risk_per_trade_percent : {0, 10, 100, 110},
      dry_run : BOOLEAN,
      credentials : SUBSET Credentials,
      ai_confidence_threshold : {-100, 700, 1500},
      semantic_kill_threshold_text : {"0.9", "1.5"} ]

NoConfigCall == [op |-> "none"]
ConfigIdle   == config_call = NoConfigCall
ConfigInit   == config_call \in [op : {"called"}, fields : ConfigFields]

\* the __post_init__ in force: TRUE when it raises ValueError; it assigns no
\* field
post_init_raises(self) ==
    \/ self.strategy_mode \notin {"conservative", "balanced", "aggressive"}
    \/ self.otm_delta_range_low >= self.otm_delta_range_high
    \/ self.risk_per_trade_percent <= 0
    \/ self.risk_per_trade_percent > 100
    \/ (~self.dry_run /\ "api_key" \notin self.credentials)
    \/ (~self.dry_run /\ "api_secret" \notin self.credentials)
    \/ (~self.dry_run /\ "access_token" \notin self.credentials)

ConfigRest == <<coreVars, riskVars, cacheVars, rollVars, mockVars>>

ConstructConfig ==
    /\ config_call.op = "called"
    /\ config_call' =
          [ op |-> "returned", fields |-> config_call.fields,
            raised |-> post_init_raises(config_call.fields),
            config |-> config_call.fields ]
    /\ UNCHANGED ConfigRest

(***************************************************************************)
(* RiskManager.should_place_order and calculate_max_position_size, called  *)
(* with the manager holding any figures.  Margins are kept in fifths of a  *)
(* rupee so that the 20% equity margin stays whole.                        *)
(***************************************************************************)
NoRiskCall == [op |-> "none"]
RiskIdle   == risk_call = NoRiskCall

\* `"CE" in trade.symbol or "PE" in trade.symbol`: a substring test, which an
\* equity symbol can pass as well
OptionLike(symbol) == symbol \in {"NIFTY24500PE", "RELIANCE"}

\* _calculate_required_margin(trade), times 5
required_margin_x5(trade) ==
    IF trade.transaction_type = "BUY" THEN 5 * trade.price * trade.quantity
    ELSE IF OptionLike(trade.symbol)
      THEN 5 * Min(trade.price * trade.quantity * 2, daily_loss_limit)
    ELSE trade.price * trade.quantity

\* position_value / portfolio_value > position_size_limit (0.10)
PositionSizeExceeds_Never(rm, trade) == FALSE
PositionSizeExceeds(rm, trade) ==
    /\ rm.portfolio_value > 0
    /\ 10 * Abs(trade.price * trade.quantity) > rm.portfolio_value

\* (margin_used + required_margin) / (margin_available + margin_used) > 0.95
UtilizationExceeds(rm, trade) ==
    /\ rm.margin_available > 0
    /\ 100 * (5 * rm.margin_used + required_margin_x5(trade))
          > MarginUtilizationLimitPct * 5 * (rm.margin_available + rm.margin_used)

should_place_order(rm, trade) ==
    IF rm.daily_losses >= daily_loss_limit
      THEN [allow |-> FALSE, reason |-> "Daily loss limit exceeded"]
    ELSE IF Cardinality(rm.current_positions) >= max_concurrent_positions
      THEN [allow |-> FALSE, reason |-> "Maximum concurrent positions reached"]
    ELSE IF PositionSizeExceeds(rm, trade)
      THEN [allow |-> FALSE, reason |-> "Position size exceeds limit"]
    ELSE IF 5 * rm.cash_available < required_margin_x5(trade)
      THEN [allow |-> FALSE, reason |-> "Insufficient margin"]
    ELSE IF UtilizationExceeds(rm, trade)
      THEN [allow |-> FALSE, reason |-> "Margin utilization exceeds limit"]
    ELSE [allow |-> TRUE, reason |-> "Order approved"]

\* the figures the manager can hold when it is asked
TrackedSymbols == {"P1", "P2", "P3", "P4", "P5"}
RiskManagers ==
    { [ RiskManagerInit EXCEPT !.daily_losses = l, !.current_positions = c,
                               !.portfolio_value = v, !.cash_available = a,
                               !.margin_available = m, !.margin_used = u ] :
        l \in {0, 5000}, c \in {{}, TrackedSymbols}, v \in {0, 1000, 100000},
        a \in {0, 100, 100000}, m \in {0, 100, 100000}, u \in {0, 2000} }

RiskTrades ==
    [ symbol : {"NIFTY24500PE", "RELIANCE", "TCS"}, transaction_type : {"BUY", "SELL"},
      price : {1, 50}, quantity : {1, 150} ]

ShouldPlaceInit ==
    risk_call \in [op : {"should_place_order"}, pc : {"called"}, rm : RiskManagers,
                   trade : RiskTrades]

RiskRest == <<coreVars, configVars, cacheVars, rollVars, mockVars>>

ShouldPlaceOrder ==
    /\ risk_call.op = "should_place_order"
    /\ risk_call.pc = "called"
    /\ risk_call' = [ op |-> "should_place_order", pc |-> "returned",
                      rm |-> risk_call.rm, trade |-> risk_call.trade,
                      returned |-> should_place_order(risk_call.rm, risk_call.trade) ]
    /\ UNCHANGED RiskRest

StrategyTypes == {"CASH_SECURED_PUT", "COVERED_CALL"}

MaxSizeInit ==
    risk_call \in
      [ op : {"calculate_max_position_size"}, pc : {"called"},
        portfolio_value : {0, 10000, 15000, 1000000, 1425000, 1500000, 2850000,
                           3000000, 5000000},
        underlying_price : {0, 1, 100, 200, 18000},
        strategy_type : StrategyTypes ]

CalculateMaxPositionSize ==
    /\ risk_call.op = "calculate_max_position_size"
    /\ risk_call.pc = "called"
    /\ risk_call' =
          [ op |-> "calculate_max_position_size", pc |-> "returned",
            portfolio_value |-> risk_call.portfolio_value,
            underlying_price |-> risk_call.underlying_price,
            strategy_type |-> risk_call.strategy_type,
            returned |-> calculate_max_position_size(
                            [RiskManagerInit EXCEPT
                                !.portfolio_value = risk_call.portfolio_value],
                            risk_call.underlying_price, risk_call.strategy_type) ]
    /\ UNCHANGED RiskRest

(***************************************************************************)
(* OptionWheelStrategy.get_options_chain and its cache                     *)
(* (core/strategy.py 181-299).                                             *)
(***************************************************************************)
CacheKeys == {"TCS_nearest", "NIFTY_nearest"}

\* a contract of a chain: its symbol and whether its delta was computed from
\* the underlying's quote
Contract(symbol, has_delta) == [symbol |-> symbol, has_delta |-> has_delta]

\* what kite.instruments() can list for an underlying: no option at all (or
\* not the underlying itself), or some option symbols
Listings == { <<>>, <<"24000PE">>, <<"24000PE", "24500PE">> }

NoInstruments == [loaded |-> FALSE, listed |-> [k \in CacheKeys |-> <<>>]]

\* _fetch_instruments as _fetch_options_chain_kite calls it (227-228): only
\* when nothing is loaded yet; a broker failure then propagates
fetch_instruments(loaded_now, broker_ok, listed) ==
    IF loaded_now.loaded THEN [raised |-> FALSE, instruments |-> loaded_now]
    ELSE IF broker_ok
      THEN [raised |-> FALSE, instruments |-> [loaded |-> TRUE, listed |-> listed]]
    ELSE [raised |-> TRUE, instruments |-> loaded_now]

\* _fetch_options_chain_nse: a placeholder that returns an empty list
fetch_options_chain_nse == <<>>

\* _fetch_options_chain_kite: an exception of _fetch_instruments is caught at
\* 297-299 and answered with []; a failure of the underlying's quote is caught
\* at 291-292 and leaves every contract with the delta of the placeholder
\* price, which is None
fetch_options_chain_kite(key, fetched, quote_ok) ==
    IF fetched.raised THEN <<>>
    ELSE LET listing == fetched.instruments.listed[key]
         IN  [ i \in DOMAIN listing |-> Contract(listing[i], quote_ok) ]

\* which of its calls failed during a refresh
RefreshError(key, fetched, quote_ok) ==
    IF fetched.raised THEN "broker"
    ELSE IF fetched.instruments.listed[key] = <<>> THEN "instrument list"
    ELSE IF ~quote_ok THEN "quote"
    ELSE "none"

NoEntry == [present |-> FALSE, chain |-> <<>>]

\* self.options_chain_cache.get(cache_key, [])
CacheGet(cache, key) == IF cache[key].present THEN cache[key].chain ELSE <<>>

NoChainCall == [op |-> "none"]
CacheIdle ==
    /\ options_chain_cache = [k \in CacheKeys |-> NoEntry]
    /\ options_chain_last_fetch = [k \in CacheKeys |-> "never"]
    /\ instruments = NoInstruments
    /\ chain_call = NoChainCall

CacheRest == <<coreVars, configVars, riskVars, rollVars, mockVars>>

\* get_options_chain(underlying_symbol, expiry_date); neither fetch function
\* lets an exception out, so the handler at 211-214 has nothing to catch
GetOptionsChain ==
    \E key \in CacheKeys, broker_ok \in BOOLEAN, quote_ok \in BOOLEAN,
       listed \in [CacheKeys -> Listings] :
        LET valid   == options_chain_last_fetch[key] = "fresh"        \* 188-190
            nse     == fetch_options_chain_nse
            fetched == fetch_instruments(instruments, broker_ok, listed)
            chain   == IF nse # <<>> THEN nse
                       ELSE fetch_options_chain_kite(key, fetched, quote_ok)
            returned == IF valid THEN CacheGet(options_chain_cache, key) ELSE chain
        IN  /\ options_chain_cache' =
                  IF valid THEN options_chain_cache
                  ELSE [options_chain_cache EXCEPT
                            ![key] = [present |-> TRUE, chain |-> chain]]
            /\ options_chain_last_fetch' =
                  IF valid THEN options_chain_last_fetch
                  ELSE [options_chain_last_fetch EXCEPT ![key] = "fresh"]
            /\ instruments' = IF valid THEN instruments ELSE fetched.instruments
            /\ chain_call' =
                  [ op |-> "get_options_chain", key |-> key,
                    refreshed |-> ~valid,
                    expired   |-> options_chain_last_fetch[key] = "expired",
                    error     |-> IF valid THEN "none"
                                  ELSE RefreshError(key, fetched, quote_ok),
                    cached_before |-> options_chain_cache[key],
                    returned  |-> returned ]
            /\ UNCHANGED CacheRest

\* options_chain_cache_ttl seconds pass after a fetch
TtlElapses ==
    \E key \in CacheKeys :
        /\ options_chain_last_fetch[key] = "fresh"
        /\ options_chain_last_fetch' = [options_chain_last_fetch EXCEPT ![key] = "expired"]
        /\ UNCHANGED <<options_chain_cache, instruments, chain_call>>
        /\ UNCHANGED CacheRest

(***************************************************************************)
(* execute_rolls_for_positions (auto_roll_functions.py 220-282), called    *)
(* with an OptionWheelStrategy.                                            *)
(***************************************************************************)
RollSymbols == {"TCS24JUL3000PE", "TCS24JUL3200CE"}

\* a position of the batch, by what the loop body asks of it: whether
\* should_roll_position says so, whether its quote can be had, whether its
\* quantity is negative, and whether the object has the `strike` attribute
\* lines 248 and 262 read (the Position dataclass has none)
RollPositions ==
    [ symbol : RollSymbols, should_roll : BOOLEAN, quote_ok : BOOLEAN,
      is_short : BOOLEAN, has_strike : BOOLEAN ]

\* batches of at most two positions, no symbol twice
RollBatches ==
    {<<>>} \cup { <<p>> : p \in RollPositions }
           \cup { <<p, q>> : p \in { x \in RollPositions : x.symbol = "TCS24JUL3000PE" },
                             q \in { x \in RollPositions : x.symbol = "TCS24JUL3200CE" } }

\* hasattr(strategy, "remove_position"): OptionWheelStrategy defines no such
\* method (RiskManager does)
strategy_has_remove_position == FALSE

\* one pass of the loop body; any exception is caught at 279-280
roll_one(acc, position) ==
    IF ~position.should_roll THEN acc
    ELSE IF ~position.quote_ok THEN acc             \* kite.quote raises
    ELSE IF ~position.is_short THEN acc
    ELSE IF ~position.has_strike THEN acc           \* AttributeError
    ELSE LET is_call  == position.symbol = "TCS24JUL3200CE"
             appended == [acc EXCEPT !.roll_transactions = Append(@,
                            [ original_position |-> position.symbol,
                              action |-> IF is_call THEN "ROLL_CALL_UP_OUT"
                                         ELSE "ROLL_PUT_DOWN_OUT" ])]
         IN  IF strategy_has_remove_position
             THEN [appended EXCEPT !.tracked = @ \ {position.symbol}]
             ELSE appended                           \* AttributeError

RECURSIVE execute_rolls_for_positions(_, _)
execute_rolls_for_positions(acc, positions) ==
    IF positions = <<>> THEN acc
    ELSE execute_rolls_for_positions(roll_one(acc, Head(positions)), Tail(positions))

NoRollCall == [op |-> "none"]
RollIdle   == roll_call = NoRollCall
RollInit   == roll_call \in [op : {"called"}, positions : RollBatches]

RollRest == <<coreVars, configVars, riskVars, cacheVars, mockVars>>

\* the strategy tracks every position of the batch when the call is made
ExecuteRolls ==
    /\ roll_call.op = "called"
    /\ LET tracked == { roll_call.positions[i].symbol : i \in DOMAIN roll_call.positions }
           done == execute_rolls_for_positions(
                      [roll_transactions |-> <<>>, tracked |-> tracked],
                      roll_call.positions)
       IN  roll_call' = [ op |-> "returned", positions |-> roll_call.positions,
                          tracked_before |-> tracked,
                          tracked_after  |-> done.tracked,
                          returned       |-> done.roll_transactions ]
    /\ UNCHANGED RollRest

(***************************************************************************)
(* MockKiteConnect (backtesting/mock_kite.py).  Amounts are whole rupees;  *)
(* a position's average price is a fraction <<numerator, denominator>> in  *)
(* lowest terms, the value Python's division gives before rounding.        *)
(***************************************************************************)
MaxMockOrders == 2                       \* place_order calls explored
first_order_id == 1000                   \* self.order_id_counter = 1000
mock_last_price == 100                   \* 'last_price': 100.0 with no historical data
MockSymbols == {"INFY", "TCS"}
MockExchange == "NSE"
NoPrice == [is_none |-> TRUE]            \* price: Optional[float] = None
MockOrderTypes == {"MARKET", "LIMIT"}
MockQuantities == {1, 2}
MockPrices == {NoPrice, [is_none |-> FALSE, value |-> 40]}
MockBalances == {0, 1000}
HistoricalData == { <<>>, [k \in {<<MockExchange, "INFY">>} |-> 250] }  \* close per key

RECURSIVE GCD(_, _)
GCD(a, b) == IF b = 0 THEN a ELSE GCD(b, a % b)
Ratio(n, d) ==
    IF n = 0 THEN <<0, 1>>
    ELSE LET g == GCD(Abs(n), Abs(d))
         IN  IF d < 0 THEN <<(0 - n) \div g, (0 - d) \div g>> ELSE <<n \div g, d \div g>>

MockKiteConnect(initial_balance, historical_data) ==
    [ initial_balance |-> initial_balance, current_balance |-> initial_balance,
      positions |-> <<>>, orders |-> <<>>, order_id_counter |-> first_order_id,
      historical_data |-> historical_data, trades |-> <<>> ]

MockIdle == mock_kite = MockKiteConnect(0, <<>>)
MockInit == mock_kite \in { MockKiteConnect(b, h) : b \in MockBalances, h \in HistoricalData }

\* quote([instrument])[instrument]["last_price"]
mock_quote(self, instrument) ==
    IF instrument \in DOMAIN self.historical_data
    THEN self.historical_data[instrument] ELSE mock_last_price

cost_unsigned(price, quantity, transaction_type) == price * quantity
cost(price, quantity, transaction_type) ==
    IF transaction_type = "BUY" THEN 0 - (price * quantity) ELSE price * quantity

new_position == [quantity |-> 0, average_price |-> <<0, 1>>, last_price |-> 0, pnl |-> 0]

mock_place_order(self, exchange, tradingsymbol, transaction_type, quantity, order_type, price0) ==
    LET order_id == self.order_id_counter
        price == IF order_type = "MARKET" \/ price0.is_none
                 THEN mock_quote(self, <<exchange, tradingsymbol>>) ELSE price0.value
        value == cost(price, quantity, transaction_type)
        pos == IF tradingsymbol \in DOMAIN self.positions
               THEN self.positions[tradingsymbol] ELSE new_position
        prev_quantity == pos.quantity
        n == pos.average_price[1]
        d == pos.average_price[2]
        new_quantity == IF transaction_type = "BUY" THEN prev_quantity + quantity
                        ELSE prev_quantity - quantity
        new_avg_price ==
            IF transaction_type = "BUY"
            THEN IF new_quantity # 0
                 THEN Ratio(prev_quantity * n + quantity * price * d, d * new_quantity)
                 ELSE <<0, 1>>
            ELSE IF prev_quantity > 0 THEN pos.average_price
            ELSE IF new_quantity # 0
                 THEN Ratio(Abs(prev_quantity) * n + quantity * price * d,
                            d * Abs(new_quantity))
                 ELSE <<0, 1>>
        pos2 == [pos EXCEPT !.quantity = new_quantity, !.average_price = new_avg_price,
                            !.last_price = price]
    IN  [ self EXCEPT
            !.order_id_counter = @ + 1,
            !.current_balance = @ + value,
            !.orders = Append(@, [ order_id |-> order_id, tradingsymbol |-> tradingsymbol,
                                   exchange |-> exchange,
                                   transaction_type |-> transaction_type,
                                   quantity |-> quantity, price |-> price,
                                   order_type |-> order_type, status |-> "COMPLETE",
                                   filled_quantity |-> quantity ]),
            !.positions = [ s \in DOMAIN self.positions \cup {tradingsymbol} |->
                              IF s = tradingsymbol THEN pos2 ELSE self.positions[s] ],
            !.trades = Append(@, [ order_id |-> order_id, symbol |-> tradingsymbol,
                                   transaction_type |-> transaction_type,
                                   quantity |-> quantity, price |-> price,
                                   value |-> value ]) ]

MockRest == <<coreVars, configVars, riskVars, cacheVars, rollVars>>

MockPlaceOrder ==
    /\ mock_kite.order_id_counter < first_order_id + MaxMockOrders
    /\ \E tradingsymbol \in MockSymbols, transaction_type \in {"BUY", "SELL"},
          quantity \in MockQuantities, order_type \in MockOrderTypes, price \in MockPrices :
          mock_kite' = mock_place_order(mock_kite, MockExchange, tradingsymbol,
                                        transaction_type, quantity, order_type, price)
    /\ UNCHANGED MockRest

(***************************************************************************)
(* Specifications                                                          *)
(***************************************************************************)
ExtraIdle == ConfigIdle /\ RiskIdle /\ CacheIdle /\ RollIdle /\ MockIdle
SideIdle == MainIdle /\ RunIdle /\ DaoIdle /\ NotifyIdle /\ LlmIdle /\ JudgeIdle /\ ExtraIdle

InitRetry == RetryInit /\ BreakerIdle /\ StrategyIdle /\ SideIdle
NextRetry == RetryCall \/ RetryAttempt \/ RetryDone
SpecRetry == InitRetry /\ [][NextRetry]_vars

InitBreaker == RetryIdle /\ max_retries = 0 /\ backoff_factor = 1 /\ BreakerIdle
               /\ StrategyIdle /\ SideIdle
NextBreaker == Tick \/ BreakerCall
SpecBreaker == InitBreaker /\ [][NextBreaker]_vars

Init == StrategyInit /\ RetryIdle /\ max_retries = 0 /\ backoff_factor = 1 /\ BreakerIdle
        /\ SideIdle
Next == PlaceOrder \/ TouchKillSwitchFile \/ MarketBell \/ ClockTick
Spec == Init /\ [][Next]_vars

NextCycle == ExecuteStrategyCycle \/ TouchKillSwitchFile \/ MarketBell \/ ClockTick
SpecCycle == Init /\ [][NextCycle]_vars

\* main() from process start to exit; the kill-switch file may be there already
InitMain == /\ MainInit /\ EngineIdle /\ RunIdle /\ DaoIdle /\ NotifyIdle /\ LlmIdle /\ JudgeIdle
            /\ ExtraIdle
            /\ kill_switch_file \in BOOLEAN /\ dry_run \in BOOLEAN
            /\ market_open = FALSE /\ wall_clock = 0
            /\ RetryIdle /\ max_retries = 0 /\ backoff_factor = 1 /\ BreakerIdle
NextMain == MainStart \/ MainMode \/ MainFinish \/ TouchKillSwitchFile
SpecMain == InitMain /\ [][NextMain]_vars

\* the two DAOs over a database that init_db has just created
NextDao == InsertTrade \/ InsertPosition \/ GetTradeById \/ GetPositionBySymbol
InitDao == RetryIdle /\ max_retries = 0 /\ backoff_factor = 1 /\ BreakerIdle
           /\ StrategyIdle /\ SideIdle
SpecDao == InitDao /\ [][NextDao]_vars

\* the notification manager under every configuration
InitNotify == RetryIdle /\ max_retries = 0 /\ backoff_factor = 1 /\ BreakerIdle
              /\ StrategyIdle /\ MainIdle /\ RunIdle /\ DaoIdle /\ NotifierInit /\ LlmIdle
              /\ JudgeIdle /\ ExtraIdle
NextNotify == SendNotification \/ SendCriticalAlert
SpecNotify == InitNotify /\ [][NextNotify]_vars

\* first calls of call_llm from several threads
NextLlm == \E t \in Threads :
              \/ CallLlm(t) \/ FirstCheck(t) \/ Acquire(t) \/ InitializeUnderLock(t)
              \/ ReturnClient(t) \/ Dispatch(t)
SpecLlm == InitDao /\ [][NextLlm]_vars

\* constructions of the settings record over every combination of field values
InitConfig == CoreIdle /\ ConfigInit /\ RiskIdle /\ CacheIdle /\ RollIdle /\ MockIdle
NextConfig == ConstructConfig
SpecConfig == InitConfig /\ [][NextConfig]_vars

\* should_place_order over every combination of figures and trades
InitShouldPlace == CoreIdle /\ ConfigIdle /\ ShouldPlaceInit /\ CacheIdle /\ RollIdle /\ MockIdle
NextShouldPlace == ShouldPlaceOrder
SpecShouldPlace == InitShouldPlace /\ [][NextShouldPlace]_vars

\* calculate_max_position_size over portfolio values, prices and strategy types
InitMaxSize == CoreIdle /\ ConfigIdle /\ MaxSizeInit /\ CacheIdle /\ RollIdle /\ MockIdle
NextMaxSize == CalculateMaxPositionSize
SpecMaxSize == InitMaxSize /\ [][NextMaxSize]_vars

\* get_options_chain calls as the cache fills and ages
InitChain == CoreIdle /\ ConfigIdle /\ RiskIdle /\ CacheIdle /\ RollIdle /\ MockIdle
NextChain == GetOptionsChain \/ TtlElapses
SpecChain == InitChain /\ [][NextChain]_vars

\* execute_rolls_for_positions over every batch
InitRolls == CoreIdle /\ ConfigIdle /\ RiskIdle /\ CacheIdle /\ RollInit /\ MockIdle
NextRolls == ExecuteRolls
SpecRolls == InitRolls /\ [][NextRolls]_vars

\* place_order calls on a mock broker, with and without historical data
InitMock == CoreIdle /\ ConfigIdle /\ RiskIdle /\ CacheIdle /\ RollIdle /\ MockInit
NextMock == MockPlaceOrder
SpecMock == InitMock /\ [][NextMock]_vars

\* calls of judge_message over every message, model response and threshold
InitJudge == RetryIdle /\ max_retries = 0 /\ backoff_factor = 1 /\ BreakerIdle
             /\ StrategyIdle /\ MainIdle /\ RunIdle /\ DaoIdle /\ NotifyIdle /\ LlmIdle
             /\ JudgeInit /\ ExtraIdle
SpecJudge == InitJudge /\ [][NextJudge]_vars

\* run() from its call to its return; every pass of the loop that can be made
\* is eventually made
NextRun == RunStart \/ RunIteration \/ RunSignal \/ TouchKillSwitchFile \/ MarketBell
              \/ ClockTick
SpecRun == Init /\ [][NextRun]_vars /\ WF_vars(RunIteration)

(***************************************************************************)
(* Properties of with_retry                                                *)
(***************************************************************************)
Failed(xs)   == { i \in DOMAIN xs : ~xs[i].ok }
Succeeded(xs) == { i \in DOMAIN xs : xs[i].ok }

\* C8: with_retry invokes the wrapped call at most max_retries + 1 times; it
\* returns the result of the first attempt that succeeds, never calling again
\* after a success, and when all max_retries + 1 attempts fail it raises the
\* failure of the last attempt to its caller.
C8_RetryBounded ==
    /\ Len(func_outcomes) <= max_retries + 1
    /\ Succeeded(func_outcomes) \subseteq {Len(func_outcomes)}
    /\ Succeeded(func_outcomes) # {} => retry_pc = "returned"
    /\ retry_pc = "returned" =>
          /\ Succeeded(func_outcomes) = {Len(func_outcomes)}
          /\ retry_result = func_outcomes[Len(func_outcomes)].v
    /\ retry_pc = "raised" =>
          /\ Len(func_outcomes) = max_retries + 1
          /\ Failed(func_outcomes) = DOMAIN func_outcomes
          /\ retry_result = func_outcomes[max_retries + 1].v
    /\ (retry_pc = "running" /\ Len(func_outcomes) = max_retries + 1) =>
          Succeeded(func_outcomes) # {}

\* every attempt failed, with at least one retry, and the last failure was raised
C8_Witness ==
    /\ retry_pc = "raised"
    /\ max_retries >= 1
    /\ Len(func_outcomes) = max_retries + 1
    /\ func_outcomes[1].v # retry_result

(***************************************************************************)
(* Properties of circuit_breaker                                           *)
(***************************************************************************)
\* consecutive failures of the wrapped function no older than the window,
\* counted at the time of the most recent one
StreakInWindow ==
    IF failure_streak = <<>> THEN 0
    ELSE Len(After(failure_streak, failure_streak[Len(failure_streak)] - WindowSeconds))

LastStreakTime == failure_streak[Len(failure_streak)]

\* C6: after failure_threshold consecutive failures of the wrapped call inside
\* the 5-minute window the breaker is OPEN (so that the next call is rejected
\* without entering the wrapped function).
C6_OpensAtThreshold ==
    (last_call.invoked /\ last_call.outcome # "returned"
        /\ StreakInWindow >= failure_threshold)
    => breaker_state = "OPEN"

\* C7: once failure_threshold consecutive failures in the window have opened
\* the breaker, and until more than timeout seconds have passed since the
\* last failure, no call enters the wrapped function; only after the timeout
\* is a probe let through.
C7_RejectsUntilTimeout ==
    [][ (StreakInWindow >= failure_threshold
            /\ clock - LastStreakTime <= timeout)
        => invocations' = invocations ]_vars

(***************************************************************************)
(* Properties of place_order and execute_strategy_cycle                    *)
(***************************************************************************)
OrderCalls == { order_calls[i] : i \in DOMAIN order_calls }

Accepted(c) == c.ret # NoOrder

\* C1: place_order returns no order id, reaches no broker and writes no trade
\* row whenever the kill-switch file is there, the market is closed,
\* quantity <= 0, or price <= 0 on a LIMIT order, in dry-run and live alike.
\* (The kill switch is active when its file exists: that is what
\* _check_kill_switch looks at on every call.)
C1_RefusalsPlaceNothing ==
    \A c \in OrderCalls :
        ( \/ c.kill
          \/ ~c.market
          \/ c.order.quantity <= 0
          \/ (c.order.price <= 0 /\ c.order.order_type = "LIMIT") )
        => (c.ret = NoOrder /\ c.sent = 0 /\ c.insert_calls = 0 /\ c.tracked = 0)

\* a LIMIT order at price 0, otherwise fine, was refused
C1_Witness ==
    \E c \in OrderCalls :
        /\ ~c.kill /\ c.market /\ c.order.quantity > 0
        /\ c.order.price <= 0 /\ c.order.order_type = "LIMIT"
        /\ c.ret = NoOrder

\* C2: every order the engine sends to the broker or writes as a Trade was
\* first put to risk_manager.should_place_order, which allowed it.
C2_RiskGateBeforeEveryOrder ==
    \A c \in OrderCalls :
        (c.sent > 0 \/ c.insert_calls > 0) => c.risk_checked > 0

\* C3: once enforce_risk_limits() has returned False in a cycle, no later
\* handler sends an order to the broker or writes a trade.
C3_NoOrderAfterBreach ==
    [][ breach_reported =>
          /\ broker_orders' = broker_orders
          /\ trades' = trades
          /\ risk_manager'.trades_today = risk_manager.trades_today ]_vars

\* C4: with dry_run set no place_order call reaches the broker; an accepted
\* order gets the synthetic DRY_RUN id, one notification, one insert_trade
\* call and one risk_manager.add_trade, and nobody is prompted.
C4_DryRunNeverReachesBroker ==
    dry_run =>
        /\ broker_orders = <<>>
        /\ active_orders = {}
        /\ \A c \in OrderCalls :
              /\ c.sent = 0
              /\ c.prompted = 0
              /\ Accepted(c) =>
                    /\ c.ret.kind = "DRY_RUN"
                    /\ c.notified = 1
                    /\ c.insert_calls = 1
                    /\ c.tracked = 1

\* a dry-run order was accepted and its row written
C4_Witness ==
    /\ dry_run
    /\ \E c \in OrderCalls : Accepted(c) /\ c.in_table

\* C5: in live mode no order is handed to the broker before CONFIRM has been
\* typed at the prompt of the first live order, and the place_order calls
\* that follow the first live order the broker took prompt no more.
C5_ConfirmOnlyBeforeFirstLiveOrder ==
    \A c \in OrderCalls :
        ~c.dry =>
            /\ (c.sent > 0 /\ c.placed_before = 0) => c.prompted = 1
            /\ c.placed_before > 0 => c.prompted = 0

\* C9: when place_order returns an order id (and sqlite refused no write), a
\* trades row with that order id is in the table at the moment it returns.
C9_ReturnedOrderIsInTable ==
    \A c \in OrderCalls :
        (Accepted(c) /\ c.inserted = c.insert_calls) => c.in_table

\* C10: in dry-run, a handler whose row writes all succeed leaves the trades
\* table with one more row per accepted order and every earlier row in place.
C10_OneNewRowPerDryRunOrder ==
    [][ (dry_run /\ \A i \in DOMAIN order_calls' :
                        order_calls'[i].inserted = order_calls'[i].insert_calls)
        => /\ Cardinality(trades') - Cardinality(trades)
                = Len(risk_manager'.trades_today) - Len(risk_manager.trades_today)
           /\ trades \subseteq trades'
           /\ \A r \in trades' : r.status = "COMPLETE" ]_vars

(***************************************************************************)
(* Properties of main()                                                    *)
(***************************************************************************)
Range(xs) == { xs[i] : i \in DOMAIN xs }

NotificationsOf(events) ==
    { e \in Range(events) : e \in {"notify:Bot Started", "notify:Bot Error", "notify:Bot Stopped"} }

\* nothing was announced and no flow was entered
NothingStarted == NotificationsOf(main_events) = {} /\ Range(main_events) \cap Modes = {}

\* C11: if the kill-switch file exists when main() starts, the process exits
\* before the start notification is sent and before any mode is entered, and
\* with code 1 whenever the command line is one the argument parser accepts.
C11_KillSwitchAtStartAbortsBeforeAnyMode ==
    (main_pc # "not_started" /\ kill_file_at_start)
        => /\ main_pc = "exited"
           /\ NothingStarted
           /\ (argv.parse = "ok" => exit_code = 1)

\* C11 as stated: with the kill-switch file there when main() starts, the
\* process exits with code 1 before the start notification and before any mode.
C11_KillSwitchAtStartExitsWithOne ==
    (main_pc # "not_started" /\ kill_file_at_start)
        => /\ main_pc = "exited"
           /\ exit_code = 1
           /\ NothingStarted

\* the kill-switch check of main() was reached with the file there
C11_Witness ==
    /\ kill_file_at_start
    /\ argv.parse = "ok"
    /\ main_pc = "exited"
    /\ exit_code = 1
    /\ main_events = <<"initialize_directories">>

(***************************************************************************)
(* Properties of run()                                                     *)
(***************************************************************************)
ShutdownPerformed ==
    \E i \in DOMAIN run_events :
        /\ run_events[i] = "save_state"
        /\ \E j \in DOMAIN run_events : j > i /\ run_events[j] = "notify:Strategy Shutdown"

\* C12: while run() is looping, a step of the strategy taken with the
\* kill-switch file present places no order and leaves the loop, leaving it
\* goes with shutdown (state saved, then shutdown notification), and if the
\* file stays the loop is left eventually.
C12_KillSwitchHaltsLoop ==
    /\ [][(run_pc = "looping" /\ kill_switch_file /\ <<engineVars, runVars>>' # <<engineVars, runVars>>)
            => /\ run_pc' # "looping"
               /\ broker_orders' = broker_orders
               /\ trades' = trades
               /\ active_orders' = active_orders
               /\ ShutdownPerformed']_vars
    /\ ((run_pc = "looping" /\ kill_switch_file) ~> (run_pc # "looping" \/ ~kill_switch_file))

\* the loop found the kill-switch file and run() returned after shutdown()
C12_Witness ==
    /\ run_pc = "returned"
    /\ kill_switch_file
    /\ kill_switch_active
    /\ ShutdownPerformed
    /\ trades # {}

(***************************************************************************)
(* Properties of the DAOs                                                  *)
(***************************************************************************)
UniqueBy(rows, key) == \A r1, r2 \in rows : r1[key] = r2[key] => r1 = r2

\* the rows a table holds for a key, given the last record written under it
RowsOf(record, dict, optionals) ==
    IF record = PyNone THEN {} ELSE {BoundRow(dict, optionals)}

\* C13: the trades table holds at most one row per order_id and the positions
\* table at most one row per symbol; the row under a key is the one of the
\* last insert that succeeded, and a read by that key returns its values.
C13_OneRowPerKeyLastInsertWins ==
    /\ UniqueBy(trades, "order_id")
    /\ UniqueBy(positions_table, "symbol")
    /\ \A id \in OrderIds :
          { r \in trades : r.order_id = id }
              = IF last_written.trades[id] = PyNone THEN {}
                ELSE {BoundRow(trade_dict(last_written.trades[id]), TradeOptionals)}
    /\ \A sym \in PositionSymbols :
          { r \in positions_table : r.symbol = sym }
              = IF last_written.positions[sym] = PyNone THEN {}
                ELSE {BoundRow(position_dict(last_written.positions[sym]), PositionOptionals)}
    /\ (dao_call.op = "get_trade_by_id" /\ dao_call.db_ok)
          => dao_call.returned
                = { row_to_trade(r) : r \in { q \in trades : q.order_id = dao_call.arg } }
    /\ (dao_call.op = "get_position_by_symbol" /\ dao_call.db_ok)
          => dao_call.returned
                = { row_to_position(r) : r \in { q \in positions_table : q.symbol = dao_call.arg } }

\* an insert has replaced the row of its key by another, next to a second row
C13_Witness ==
    /\ dao_call.op = "insert_position"
    /\ dao_call.replaced
    /\ Cardinality(positions_table) = 2

Inserts == {"insert_trade", "insert_position"}

\* C14: insert_trade and insert_position never raise; a failure is logged and
\* returned as False, a success is returned as True.
C14_InsertNeverRaises ==
    dao_call.op \in Inserts
        => /\ ~dao_call.raised
           /\ dao_call.returned = dao_call.written
           /\ dao_call.logged = ~dao_call.returned

\* an insert failed while sqlite was unavailable and reported False
C14_Witness ==
    /\ dao_call.op = "insert_trade"
    /\ ~dao_call.db_ok
    /\ dao_call.returned = FALSE
    /\ dao_call.logged

\* C15: a Trade that insert_trade has stored and get_trade_by_id then reads
\* back by its order_id comes back with every field equal to what was inserted.
C15_TradeRoundTrip ==
    [][(/\ dao_call.op = "insert_trade"
        /\ dao_call.returned
        /\ dao_call'.op = "get_trade_by_id"
        /\ dao_call'.arg = dao_call.arg.order_id
        /\ dao_call'.db_ok)
          => dao_call'.returned = {dao_call.arg}]_vars

\* a trade with microseconds in its timestamp was read back
C15_Witness ==
    /\ dao_call.op = "get_trade_by_id"
    /\ dao_call.found
    /\ dao_call.returned = {last_written.trades[dao_call.arg]}
    /\ \E t \in dao_call.returned :
          /\ t.order_timestamp # PyNone
          /\ t.order_timestamp.microsecond # 0

\* C16: inserting a Position built from its required fields only reports
\* success and leaves a row with the same symbol, quantity, average price and
\* P&L for get_position_by_symbol to return.
C16_RequiredOnlyPositionRoundTrip ==
    (/\ dao_call.op = "insert_position"
     /\ dao_call.db_ok
     /\ dao_call.arg.position_type = RequiredOnly.position_type
     /\ dao_call.arg.entry_timestamp = RequiredOnly.entry_timestamp
     /\ dao_call.arg.exit_timestamp = RequiredOnly.exit_timestamp)
        => /\ dao_call.returned
           /\ \E r \in get_by_id(positions_table, "symbol", dao_call.arg.symbol, TRUE) :
                 LET p == row_to_position(r)
                 IN  /\ p.symbol = dao_call.arg.symbol
                     /\ p.quantity = dao_call.arg.quantity
                     /\ p.average_price = dao_call.arg.average_price
                     /\ p.pnl = dao_call.arg.pnl

(***************************************************************************)
(* Properties of the notification manager                                  *)
(***************************************************************************)
\* C17: with notifications enabled, send_critical_alert invokes send on every
\* configured channel (here: every channel that has its credentials), whatever
\* the default channel is and whatever the sends on the other channels return.
C17_CriticalAlertReachesEveryChannel ==
    (notify_call.op = "send_critical_alert" /\ notifier.enabled)
        => \A c \in notifier.has_credentials :
              \E i \in DOMAIN notify_call.invoked : notify_call.invoked[i] = c

(***************************************************************************)
(* Properties of the language-model client                                 *)
(***************************************************************************)
\* C18: however the threads interleave, the client is initialised at most
\* once, and every caller of get_llm_client receives that one client.
C18_ClientConstructedOnce ==
    /\ initializations <= 1
    /\ \A t \in Threads :
          llm_pc[t] \in {"dispatch", "done"}
              => /\ initializations = 1
                 /\ llm_got[t].client # NoClient
                 /\ llm_got[t].client = llm_client

\* every thread found no client at its first check, went through the lock,
\* and has its client
C18_Witness ==
    \A t \in Threads : llm_pc[t] = "done" /\ llm_got[t].locked

\* C19: call_llm never raises; when the call to the model fails it returns the
\* mock response, marked with "[MOCK]".
C19_CallLlmNeverRaises ==
    \A t \in Threads :
        llm_pc[t] = "done"
            => /\ ~llm_result[t].raised
               /\ (llm_result[t].failed => llm_result[t].text = "[MOCK]")

\* a call to a real client failed and was answered with the mock response
C19_Witness ==
    \E t \in Threads :
        /\ llm_pc[t] = "done"
        /\ llm_got[t].client.kind = "openai"
        /\ llm_result[t].failed
        /\ llm_result[t].text = "[MOCK]"


\* C20: for a message that misses the high-confidence regex tier (the feature
\* being enabled), judge_message activates exactly when the decision is KILL
\* or PAUSE with a confidence of at least the configured threshold, and below
\* the threshold it returns half the decision's confidence
C20_ThresholdRule ==
    ( /\ judge_call.op = "returned"
      /\ judge_call.enabled
      /\ judge_call.message \cap high_confidence_patterns = {} )
    => LET d         == Decided(judge_call.message, judge_call.response)
           threshold == float(judge_call.threshold_text)
           returned  == judge_call.returned
       IN  /\ returned.should_activate
                <=> (d.decision \in {"KILL", "PAUSE"} /\ d.confidence >= threshold)
           /\ d.confidence < threshold
                => (~returned.should_activate /\ returned.confidence * 2 = d.confidence)

\* C21: once the settings record is constructed, the active OTM delta band is
\* the band of the configured strategy_mode, whatever generic band was given
C21_ModeBandAlwaysWins ==
    (config_call.op = "returned" /\ ~config_call.raised)
    => LET band == ModeBand(config_call.fields.strategy_mode)
       IN  /\ config_call.config.otm_delta_range_low = band.low
           /\ config_call.config.otm_delta_range_high = band.high

\* C22: construction fails whenever the mode is unknown, the delta band is
\* empty or inverted, risk_per_trade_percent is outside (0, 0.10], a
\* credential is absent outside dry-run, or an AI confidence threshold is
\* outside [0, 1]
C22_InvalidSettingsAreRejected ==
    config_call.op = "returned"
    => LET f == config_call.fields
           semantic == float(f.semantic_kill_threshold_text)
       IN  ( \/ f.strategy_mode \notin StrategyModes
             \/ f.otm_delta_range_low >= f.otm_delta_range_high
             \/ f.risk_per_trade_percent <= 0
             \/ f.risk_per_trade_percent > 100
             \/ (~f.dry_run /\ f.credentials # Credentials)
             \/ f.ai_confidence_threshold < 0
             \/ f.ai_confidence_threshold > 1000
             \/ semantic < 0
             \/ semantic > 1000 )
           => config_call.raised

\* C23: should_place_order allows the order exactly when none of its denial
\* conditions holds: daily losses at the limit, tracked positions at the cap,
\* position value above 10% of a positive portfolio value, cash below the
\* required margin, prospective margin utilisation above 95% (when
\* margin_available is positive)
C23_AllowIffNoDenialCondition ==
    (risk_call.op = "should_place_order" /\ risk_call.pc = "returned")
    => LET rm    == risk_call.rm
           trade == risk_call.trade
           required_x5 == required_margin_x5(trade)
           denied ==
              \/ rm.daily_losses >= daily_loss_limit
              \/ Cardinality(rm.current_positions) >= max_concurrent_positions
              \/ (rm.portfolio_value > 0
                    /\ 10 * trade.price * trade.quantity > rm.portfolio_value)
              \/ 5 * rm.cash_available < required_x5
              \/ (rm.margin_available > 0
                    /\ 20 * (5 * rm.margin_used + required_x5)
                          > 19 * 5 * (rm.margin_available + rm.margin_used))
       IN  risk_call.returned.allow <=> ~denied

\* an order denied for its size alone: every other condition lets it pass
C23_Witness ==
    /\ risk_call.op = "should_place_order" /\ risk_call.pc = "returned"
    /\ ~risk_call.returned.allow
    /\ risk_call.returned.reason = "Position size exceeds limit"
    /\ risk_call.rm.cash_available = 100000
    /\ risk_call.rm.margin_available = 100000

\* C24: calculate_max_position_size always returns either 0 or a positive
\* whole multiple of quantity_per_lot, for every portfolio value, underlying
\* price and strategy type
C24_SizeIsZeroOrWholeLots ==
    (risk_call.op = "calculate_max_position_size" /\ risk_call.pc = "returned")
    => /\ ~risk_call.returned.raised
       /\ risk_call.returned.size >= 0
       /\ risk_call.returned.size % quantity_per_lot = 0

\* C25: on every exit path of main() that follows the start notification
\* (normal completion, keyboard interrupt, exit 1 after an uncaught exception
\* or a declined live confirmation) the stop notification is sent before the
\* process exits
C25_StopNotificationOnEveryExit ==
    (main_pc = "exited" /\ "notify:Bot Started" \in Range(main_events))
        => "notify:Bot Stopped" \in Range(main_events)

\* C26: in a cycle that gets past the kill-switch and market-hours gates, the
\* portfolio/margin refresh comes first, enforce_risk_limits second, and
\* position management or the new-position search only after it; on a breach
\* neither of the two runs in that cycle
C26_RefreshThenLimitsThenPositions ==
    cycle_steps # <<>>
    => /\ Len(cycle_steps) >= 2
       /\ cycle_steps[1].call = "update_portfolio_info"
       /\ cycle_steps[2].call = "enforce_risk_limits"
       /\ \A i \in 3..Len(cycle_steps) :
             cycle_steps[i].call \notin {"update_portfolio_info", "enforce_risk_limits"}
       /\ IF cycle_steps[2].ok
          THEN /\ Len(cycle_steps) >= 3
               /\ cycle_steps[3].call
                     \in {"manage_existing_positions", "look_for_new_positions"}
          ELSE Len(cycle_steps) = 2

\* a cycle that refreshed, found a limit breached and stopped there
C26_Witness ==
    /\ Len(cycle_steps) = 2
    /\ cycle_steps[1].ok
    /\ ~cycle_steps[2].ok
    /\ ~trading_enabled

\* C27: a cycle with the market open, no kill switch, no breach, no open
\* position, tracked positions under the cap, a suitable put in the chain and
\* a portfolio value that affords a lot places a SELL order for a positive
\* whole number of lots at the option's quoted last price
C27_SearchPlacesWholeLotSell ==
    ( /\ Len(cycle_steps) >= 4
      /\ cycle_steps[3].call = "look_for_new_positions"
      /\ cycle_steps[4].call = "find_best_otm_strikes"
      /\ cycle_steps[4].ok
      /\ risk_manager.portfolio_value > 0 )
    => \E i \in DOMAIN order_calls :
          /\ order_calls[i].order.transaction_type = "SELL"
          /\ order_calls[i].order.quantity > 0
          /\ order_calls[i].order.quantity % quantity_per_lot = 0

\* C28: when the refresh of an expired cache entry fails with any error
\* (broker, instrument list or quote), get_options_chain serves the chain last
\* cached for that key, stale as it is; it returns an empty list only if no
\* chain was ever cached for the key
C28_StaleChainServedOnError ==
    ( /\ chain_call.op = "get_options_chain"
      /\ chain_call.expired
      /\ chain_call.refreshed
      /\ chain_call.error # "none" )
    => chain_call.returned
          = (IF chain_call.cached_before.present
             THEN chain_call.cached_before.chain ELSE <<>>)

\* C29: execute_rolls_for_positions removes from the strategy's tracking
\* exactly the positions that were rolled: every position with a roll record
\* is gone from tracking, and no position without one is
C29_RolledExactlyRemoved ==
    roll_call.op = "returned"
    => LET rolled == { roll_call.returned[i].original_position :
                          i \in DOMAIN roll_call.returned }
       IN  roll_call.tracked_before \ roll_call.tracked_after = rolled

\* the money the fills of one side moved: price x filled quantity, summed
RECURSIVE FillSum(_, _)
FillSum(orders, side) ==
    IF orders = <<>> THEN 0
    ELSE (IF Head(orders).transaction_type = side
          THEN Head(orders).price * Head(orders).filled_quantity ELSE 0)
         + FillSum(Tail(orders), side)

\* C30: after any sequence of place_order calls on the mock broker,
\* current_balance is initial_balance minus the price x quantity of the BUY
\* fills plus that of the SELL fills; the balance may be negative, and every
\* call made is a COMPLETE order, none refused for lack of cash
C30_BalanceIsInitialPlusSignedFills ==
    /\ mock_kite.current_balance
          = mock_kite.initial_balance - FillSum(mock_kite.orders, "BUY")
                                      + FillSum(mock_kite.orders, "SELL")
    /\ Len(mock_kite.orders) = mock_kite.order_id_counter - first_order_id
    /\ \A i \in DOMAIN mock_kite.orders :
          /\ mock_kite.orders[i].status = "COMPLETE"
          /\ mock_kite.orders[i].order_id = first_order_id + i - 1

\* a SELL and then a BUY that takes the balance below zero, both filled
C30_Witness ==
    /\ Len(mock_kite.orders) = 2
    /\ mock_kite.orders[1].transaction_type = "SELL"
    /\ mock_kite.orders[2].transaction_type = "BUY"
    /\ mock_kite.current_balance < 0
    /\ mock_kite.orders[2].status = "COMPLETE"

=========================================================================
